---- MODULE Spec2Model ----
(***************************************************************************)
(* Epassion content-protection pipeline: AdminEncryptor (package builder,  *)
(* streaming AES-GCM, AES key wrap) and EpassionPlayer (manifest loader,   *)
(* secure temp-file decrypt).                                              *)
(*                                                                         *)
(* Conventions of the model                                                *)
(*  - a Python bytes object is a sequence of integers 0..255;              *)
(*  - a Python str is a sequence of ASCII code points (utf-8 encode and    *)
(*    decode are then the same sequence);                                  *)
(*  - a call that may raise returns [ok |-> BOOLEAN, v |-> value,          *)
(*    err |-> exception name];                                             *)
(*  - the primitives of the `cryptography` package (AES-GCM, AES key wrap) *)
(*    are not code of the repository: they are modelled as small keyed     *)
(*    functions on bytes that keep the two properties the callers rely on, *)
(*    decrypt(encrypt(x)) = x and rejection of any other key, tag or       *)
(*    single-byte change of the ciphertext.                                *)
(***************************************************************************)
EXTENDS Integers, Sequences, FiniteSets, TLC

VARIABLES
    kw,       \* the key-wrap round trip: KEK, content key, wrapped text, result
    st,       \* one run of encrypt_file_aesgcm_stream / decrypt_file_aesgcm_stream
    bld,      \* the PackageBuilder object and the position of its build() call
    medium,   \* <target_root>/SecureContent: manifest.enc, package_id.txt, content/
    escrow,   \* the files of AdminEncryptor/admin_keys
    ld,       \* the frame of one load_package call
    op,       \* the frame of one decrypt_file_to_temp call
    tmpfs,    \* the files made by tempfile.mkstemp, in order of creation
    adv,      \* the manifest an adversary holding the KEK put on the medium
    pl,       \* the player's MainWindow, the device's secure store, the server
    stor,     \* the store directory and the save_bytes calls running on it
    keyp,     \* the device key pair in the store across ensure_keypair calls
    recd      \* the recorder debounce of the main window and the video window

vars == <<kw, st, bld, medium, escrow, ld, op, tmpfs, adv, pl, stor, keyp, recd>>

-----------------------------------------------------------------------------
(* Generic helpers on sequences                                            *)

Min(a, b) == IF a < b THEN a ELSE b

Ok(v) == [ok |-> TRUE, v |-> v, err |-> "none"]

Raise(e) == [ok |-> FALSE, v |-> <<>>, err |-> e]

\* Python slicing s[a:b] with 0-based a (inclusive) and b (exclusive), both
\* already clamped to 0..len(s).
Slice(s, a, b) == IF b <= a THEN <<>> ELSE SubSeq(s, a + 1, b)

\* The sequence f in evaluated form. The model checker keeps a function
\* expression unevaluated and evaluates it again at every Len and every
\* application; sequences handed on are therefore evaluated once, here.
Tuple(f) == f \o <<>>

\* b"\x.." * n
Repeat(x, n) == Tuple([i \in 1..n |-> x])

-----------------------------------------------------------------------------
(* Model of the `cryptography` primitives                                   *)

\* The position-weighted checksum standing for GHASH / the key wrap
\* integrity value. Its modulus 65521 is a prime above every position and
\* every byte difference, so that any single-byte change, truncation or
\* extension of the input changes the checksum.
DigestTerm(s, i, hi) == IF i <= hi THEN i * (s[i] + 1) ELSE 0

RECURSIVE DigestRange(_, _, _)
DigestRange(s, lo, hi) ==
    IF hi - lo < 8
    THEN (DigestTerm(s, lo, hi) + DigestTerm(s, lo + 1, hi) + DigestTerm(s, lo + 2, hi)
          + DigestTerm(s, lo + 3, hi) + DigestTerm(s, lo + 4, hi) + DigestTerm(s, lo + 5, hi)
          + DigestTerm(s, lo + 6, hi) + DigestTerm(s, lo + 7, hi)) % 65521
    ELSE LET mid == (lo + hi) \div 2
         IN  (DigestRange(s, lo, mid) + DigestRange(s, mid + 1, hi)) % 65521

Digest(s) == DigestRange(s, 1, Len(s))

Hi(n) == (n \div 256) % 256
Lo(n) == n % 256

\* Keystream byte of AES-CTR at 0-based stream offset pos.
KeyStream(key, nonce, pos) ==
    (key[(pos % Len(key)) + 1] + nonce[(pos % Len(nonce)) + 1] + pos) % 256

\* encryptor.update(buf) at stream offset off (CTR mode: same length out).
CtrEncrypt(key, nonce, off, buf) ==
    Tuple([i \in 1..Len(buf) |-> (buf[i] + KeyStream(key, nonce, off + i - 1)) % 256])

\* decryptor.update(buf) at stream offset off.
CtrDecrypt(key, nonce, off, buf) ==
    Tuple([i \in 1..Len(buf) |-> (buf[i] + 256 - KeyStream(key, nonce, off + i - 1)) % 256])

\* The 16-byte GCM tag over the whole ciphertext under (key, nonce).
GcmTag(key, nonce, ct) ==
    LET dc == Digest(ct)
        dk == Digest(key)
        dn == Digest(nonce)
    IN  <<Hi(dc), Lo(dc), Hi(Len(ct)), Lo(Len(ct)), Hi(dk), Lo(dk), Hi(dn), Lo(dn),
          Hi(Len(nonce)), Lo(Len(nonce)), 71, 67, 77, 0, 0, 0>>

\* AESGCM(key).encrypt(nonce, data, None): ciphertext || tag.
AESGCM_encrypt(key, nonce, data) ==
    LET ct == CtrEncrypt(key, nonce, 0, data)
    IN  ct \o GcmTag(key, nonce, ct)

\* AESGCM(key).decrypt(nonce, data, None): InvalidTag unless the trailing 16
\* bytes are the tag of the rest; verification precedes any output.
AESGCM_decrypt(key, nonce, data) ==
    IF Len(data) < 16 THEN Raise("InvalidTag")
    ELSE LET ct  == Slice(data, 0, Len(data) - 16)
             tag == Slice(data, Len(data) - 16, Len(data))
         IN  IF GcmTag(key, nonce, ct) # tag THEN Raise("InvalidTag")
             ELSE Ok(CtrDecrypt(key, nonce, 0, ct))

\* The 8-byte integrity block of RFC 3394 (0xA6 repeated in the real
\* construction, where every output block depends on every input bit).
KwICV(kek, key) ==
    LET dk == Digest(kek)
        dc == Digest(key)
    IN  <<Hi(dk), Lo(dk), Hi(dc), Lo(dc), 166, 166, 166, 166>>

KwMask(kek, i) == (kek[((i - 1) % Len(kek)) + 1] + i) % 256

\* cryptography.hazmat.primitives.keywrap.aes_key_wrap
aes_key_wrap(kek, key) ==
    IF Len(kek) \notin {16, 24, 32} THEN Raise("ValueError")
    ELSE IF Len(key) < 16 \/ Len(key) % 8 # 0 THEN Raise("ValueError")
    ELSE Ok(KwICV(kek, key) \o
            [i \in 1..Len(key) |-> (key[i] + KwMask(kek, i)) % 256])

\* cryptography.hazmat.primitives.keywrap.aes_key_unwrap
aes_key_unwrap(kek, wrapped) ==
    IF Len(kek) \notin {16, 24, 32} THEN Raise("ValueError")
    ELSE IF Len(wrapped) < 24 \/ Len(wrapped) % 8 # 0 THEN Raise("InvalidUnwrap")
    ELSE LET body == Slice(wrapped, 8, Len(wrapped))
             key  == Tuple([i \in 1..Len(body) |-> (body[i] + 256 - KwMask(kek, i)) % 256])
         IN  IF KwICV(kek, key) # Slice(wrapped, 0, 8) THEN Raise("InvalidUnwrap")
             ELSE Ok(key)

-----------------------------------------------------------------------------
(* Base64 (base64.b64encode / base64.b64decode of the standard library)     *)

\* '=' is code point 61.
\* The alphabet A-Z a-z 0-9 + / as code points, indexed by sextet + 1.
B64Char(v) ==
    IF v < 26 THEN 65 + v
    ELSE IF v < 52 THEN 97 + (v - 26)
    ELSE IF v < 62 THEN 48 + (v - 52)
    ELSE IF v = 62 THEN 43 ELSE 47

IsB64Char(c) ==
    c \in (65..90) \cup (97..122) \cup (48..57) \cup {43, 47}

B64Val(c) ==
    IF c \in 65..90 THEN c - 65
    ELSE IF c \in 97..122 THEN c - 97 + 26
    ELSE IF c \in 48..57 THEN c - 48 + 52
    ELSE IF c = 43 THEN 62 ELSE 63

ByteAt(b, i) == IF i <= Len(b) THEN b[i] ELSE 0

\* base64.b64encode: every 3 bytes give 4 characters, '=' pads the last group.
b64encode(b) ==
    LET n == Len(b)
        groups == (n + 2) \div 3
    IN  Tuple([k \in 1..(4 * groups) |->
            LET q == (k - 1) \div 4
                r == (k - 1) % 4
                v == ByteAt(b, 3 * q + 1) * 65536 + ByteAt(b, 3 * q + 2) * 256
                       + ByteAt(b, 3 * q + 3)
            IN  IF r = 2 /\ 3 * q + 2 > n THEN 61
                ELSE IF r = 3 /\ 3 * q + 3 > n THEN 61
                ELSE B64Char(CASE r = 0 -> v \div 262144
                               [] r = 1 -> (v \div 4096) % 64
                               [] r = 2 -> (v \div 64) % 64
                               [] OTHER -> v % 64)])

\* base64.b64decode (validate=False): characters outside the alphabet are
\* discarded, then the length must be a multiple of 4 with at most two
\* trailing '=' (binascii.Error otherwise).
b64decode(s) ==
    LET clean == SelectSeq(s, LAMBDA c : IsB64Char(c) \/ c = 61)
        n     == Len(clean)
        pad   == IF n >= 2 /\ clean[n] = 61 /\ clean[n - 1] = 61 THEN 2
                 ELSE IF n >= 1 /\ clean[n] = 61 THEN 1 ELSE 0
    IN  IF n % 4 # 0 THEN Raise("binascii.Error")
        ELSE IF \E i \in 1..(n - pad) : clean[i] = 61 THEN Raise("binascii.Error")
        ELSE Ok(Tuple([k \in 1..(3 * (n \div 4) - pad) |->
                    LET q == (k - 1) \div 3
                        r == (k - 1) % 3
                        sx(j) == IF clean[4 * q + j] = 61 THEN 0
                                 ELSE B64Val(clean[4 * q + j])
                        v == sx(1) * 262144 + sx(2) * 4096 + sx(3) * 64 + sx(4)
                    IN  CASE r = 0 -> v \div 65536
                          [] r = 1 -> (v \div 256) % 256
                          [] OTHER -> v % 256]))

\* crypto_utils.b64e
b64e(x) == b64encode(x)

\* crypto_utils.b64d / core/crypto.b64d (the same one-line function)
b64d(s) == b64decode(s)

-----------------------------------------------------------------------------
(* Randomness: os.urandom draws from these finite universes                 *)

\* Number of distinct 32-byte keys os.urandom(32) can return in the model.
NumKeys == 2

\* Number of distinct 12-byte nonces os.urandom(12) can return in the model.
NumNonces == 2

KeyBytes(i) == Tuple([j \in 1..32 |-> (37 * i + 11 * j) % 256])

NonceBytes(i) == Tuple([j \in 1..12 |-> (91 * i + 5 * j) % 256])

\* crypto_utils.generate_key: os.urandom(32)
Keys == {KeyBytes(i) : i \in 1..NumKeys}

\* os.urandom(12)
Nonces == {NonceBytes(i) : i \in 1..NumNonces}

-----------------------------------------------------------------------------
(* AdminEncryptor/crypto_utils.py and EpassionPlayer/core/crypto.py:        *)
(* key wrap                                                                 *)

\* aes_kw_wrap with the arguments of aes_key_wrap exchanged.
aes_kw_wrap_swapped(kek, key_b64) ==
    LET key == b64d(key_b64)
    IN  IF ~key.ok THEN key
        ELSE LET w == aes_key_wrap(key.v, kek)
             IN  IF ~w.ok THEN w ELSE Ok(b64e(w.v))

\* crypto_utils.aes_kw_wrap(kek, key_b64) -> wrapped key, base64
aes_kw_wrap(kek, key_b64) ==
    LET key == b64d(key_b64)
    IN  IF ~key.ok THEN key
        ELSE LET w == aes_key_wrap(kek, key.v)
             IN  IF ~w.ok THEN w ELSE Ok(b64e(w.v))

\* core/crypto.unwrap_content_key(drive_key, wrapped_b64) -> content key
unwrap_content_key(drive_key, wrapped_b64) ==
    LET wrapped == b64d(wrapped_b64)
    IN  IF ~wrapped.ok THEN wrapped
        ELSE aes_key_unwrap(drive_key, wrapped.v)

\* One bit of a byte inverted (bit 0 or bit 7).
FlipBit(b, bit) ==
    IF bit = 0 THEN (IF b % 2 = 0 THEN b + 1 ELSE b - 1)
    ELSE (b + 128) % 256

KwIdle == [pc |-> "idle", kek |-> <<>>, key |-> <<>>, wrapped |-> Raise("none"),
           tampered |-> FALSE, kek2 |-> <<>>, out |-> Raise("none")]

\* A KEK and a content key are drawn; the content key travels base64-encoded
\* as encrypt_file_aesgcm returns it.
KwInit == kw \in {[KwIdle EXCEPT !.pc = "start", !.kek = k, !.key = c] :
                    k \in Keys, c \in Keys}

\* packager.py:88  aes_kw_wrap(self.drive_key, ck_b64)
KwWrap ==
    /\ kw.pc = "start"
    /\ kw' = [kw EXCEPT !.pc = "wrapped",
                        !.wrapped = aes_kw_wrap(kw.kek, b64e(kw.key))]
    /\ UNCHANGED <<st, bld, medium, escrow, ld, op, tmpfs, adv, pl, stor, keyp, recd>>

\* Environment: one bit of byte pos of the wrapped key is inverted in the
\* descriptor (the text stays valid base64).
KwTamper(pos) ==
    /\ kw.pc = "wrapped"
    /\ kw.wrapped.ok
    /\ ~kw.tampered
    /\ LET raw == b64d(kw.wrapped.v).v
       IN  /\ pos \in 1..Len(raw)
           /\ kw' = [kw EXCEPT !.tampered = TRUE,
                               !.wrapped = Ok(b64e([raw EXCEPT ![pos] = FlipBit(@, 0)]))]
    /\ UNCHANGED <<st, bld, medium, escrow, ld, op, tmpfs, adv, pl, stor, keyp, recd>>

\* core/crypto.py:40  unwrap_content_key(drive_key, desc["wrapped_key_b64"])
\* called with any KEK of the universe.
KwUnwrap(k2) ==
    /\ kw.pc = "wrapped"
    /\ kw.wrapped.ok
    /\ kw' = [kw EXCEPT !.pc = "unwrapped", !.kek2 = k2,
                        !.out = unwrap_content_key(k2, kw.wrapped.v)]
    /\ UNCHANGED <<st, bld, medium, escrow, ld, op, tmpfs, adv, pl, stor, keyp, recd>>

-----------------------------------------------------------------------------
(* AdminEncryptor/crypto_utils.py: streaming AES-GCM                        *)
(* file layout  [nonce(12)] + [ciphertext ...] + [tag(16)]                  *)

\* Largest plaintext of the streaming harness, in bytes.
MaxPlainLen == 4

\* Largest chunk_size of the streaming harness (chunk_size > 0).
MaxChunk == 3

PlainOf(n) == Tuple([i \in 1..n |-> (41 * i + 13) % 256])

Plaintexts == {PlainOf(n) : n \in 0..MaxPlainLen}

NoFile == [exists |-> FALSE, data |-> <<>>]

File(d) == [exists |-> TRUE, data |-> d]

\* f.read(n) at 0-based offset pos of a file holding data
FileRead(data, pos, n) == Slice(data, Min(pos, Len(data)), Min(pos + n, Len(data)))

\* The window without the tag subtracted.
DecDataLenNoTag(total) == total - 12

\* crypto_utils.py:117  data_len = total - 12 - 16
DecDataLen(total) == total - 12 - 16

StIdle == [pc |-> "idle", src |-> <<>>, chunk |-> 1, key |-> <<>>, nonce |-> <<>>,
           fin |-> 0, encCt |-> <<>>, encFile |-> NoFile,
           ret |-> [ck_b64 |-> <<>>, nonce_b64 |-> <<>>, tag_b64 |-> <<>>, size |-> 0],
           tampered |-> FALSE, dkey_b64 |-> <<>>, dkey |-> <<>>, dnonce |-> <<>>,
           dtag |-> <<>>, remaining |-> 0, done |-> 0, dfed |-> <<>>,
           dst |-> NoFile, err |-> "none"]

StInit == st \in {[StIdle EXCEPT !.pc = "start", !.src = p, !.chunk = c] :
                    p \in Plaintexts, c \in 1..MaxChunk}

\* encrypt_file_aesgcm_stream, lines 64-73: size, fresh key and nonce, the
\* encryptor, both files opened, the nonce written first.
EncOpen(key, nonce) ==
    /\ st.pc = "start"
    /\ st' = [st EXCEPT !.pc = "enc_loop", !.key = key, !.nonce = nonce,
                        !.fin = 0, !.encCt = <<>>, !.encFile = File(nonce),
                        !.ret = [@ EXCEPT !.size = Len(st.src)]]
    /\ UNCHANGED <<kw, bld, medium, escrow, ld, op, tmpfs, adv, pl, stor, keyp, recd>>

\* lines 75-84: one turn of the loop with a non-empty read.
EncChunk ==
    /\ st.pc = "enc_loop"
    /\ LET buf == FileRead(st.src, st.fin, st.chunk)
           ct  == CtrEncrypt(st.key, st.nonce, Len(st.encCt), buf)
       IN  /\ buf # <<>>
           /\ st' = [st EXCEPT !.encCt = @ \o ct,
                               !.encFile = File(@.data \o ct),
                               !.fin = @ + Len(buf)]
    /\ UNCHANGED <<kw, bld, medium, escrow, ld, op, tmpfs, adv, pl, stor, keyp, recd>>

\* lines 77-78 and 86-90: the read returns b"", the loop ends, finalize(),
\* the tag is appended, the base64 tuple is returned.
EncFinalize ==
    /\ st.pc = "enc_loop"
    /\ FileRead(st.src, st.fin, st.chunk) = <<>>
    /\ LET tag == GcmTag(st.key, st.nonce, st.encCt)
       IN  st' = [st EXCEPT !.pc = "encrypted",
                            !.encFile = File(@.data \o tag),
                            !.ret = [ck_b64 |-> b64e(st.key),
                                     nonce_b64 |-> b64e(st.nonce),
                                     tag_b64 |-> b64e(tag),
                                     size |-> st.ret.size]]
    /\ UNCHANGED <<kw, bld, medium, escrow, ld, op, tmpfs, adv, pl, stor, keyp, recd>>

\* Environment: one bit of the ciphertext or tag region of the encrypted
\* file is inverted (1-based position pos > 12).
StTamper(pos, bit) ==
    /\ st.pc = "encrypted"
    /\ ~st.tampered
    /\ pos \in 13..Len(st.encFile.data)
    /\ st' = [st EXCEPT !.tampered = TRUE,
                        !.encFile = File([@.data EXCEPT ![pos] = FlipBit(@, bit)])]
    /\ UNCHANGED <<kw, bld, medium, escrow, ld, op, tmpfs, adv, pl, stor, keyp, recd>>

\* decrypt_file_aesgcm_stream, lines 103-124: key decoded, size check, nonce
\* and tag read, the destination opened for writing.
DecOpen(key_b64) ==
    /\ st.pc = "encrypted"
    /\ LET key   == b64d(key_b64)
           total == Len(st.encFile.data)
       IN  IF ~key.ok
           THEN st' = [st EXCEPT !.pc = "dec_raised", !.dkey_b64 = key_b64,
                                 !.err = key.err]
           ELSE IF total < 12 + 16
           THEN st' = [st EXCEPT !.pc = "dec_raised", !.dkey_b64 = key_b64,
                                 !.dkey = key.v, !.err = "ValueError"]
           ELSE st' = [st EXCEPT !.pc = "dec_loop", !.dkey_b64 = key_b64,
                                 !.dkey = key.v,
                                 !.dnonce = FileRead(st.encFile.data, 0, 12),
                                 !.dtag = FileRead(st.encFile.data, total - 16, 16),
                                 !.remaining = DecDataLen(total),
                                 !.done = 0, !.dfed = <<>>,
                                 !.dst = File(<<>>)]
    /\ UNCHANGED <<kw, bld, medium, escrow, ld, op, tmpfs, adv, pl, stor, keyp, recd>>

\* lines 125-136: one turn of the loop.
DecChunk ==
    /\ st.pc = "dec_loop"
    /\ st.remaining > 0
    /\ LET n   == Min(st.chunk, st.remaining)
           buf == FileRead(st.encFile.data, 12 + st.done, n)
           pt  == CtrDecrypt(st.dkey, st.dnonce, Len(st.dfed), buf)
       IN  IF buf = <<>>
           THEN st' = [st EXCEPT !.pc = "dec_raised", !.err = "IOError"]
           ELSE st' = [st EXCEPT !.dfed = @ \o buf,
                                 !.dst = File(@.data \o pt),
                                 !.remaining = @ - n,
                                 !.done = @ + n]
    /\ UNCHANGED <<kw, bld, medium, escrow, ld, op, tmpfs, adv, pl, stor, keyp, recd>>

\* lines 138-139: decryptor.finalize(), the authentication check. Nothing
\* follows it: on InvalidTag the destination stays as the loop left it.
DecFinalize ==
    /\ st.pc = "dec_loop"
    /\ st.remaining <= 0
    /\ IF GcmTag(st.dkey, st.dnonce, st.dfed) = st.dtag
       THEN st' = [st EXCEPT !.pc = "dec_done"]
       ELSE st' = [st EXCEPT !.pc = "dec_raised", !.err = "InvalidTag"]
    /\ UNCHANGED <<kw, bld, medium, escrow, ld, op, tmpfs, adv, pl, stor, keyp, recd>>

-----------------------------------------------------------------------------
(* String literals of the source, as code points                            *)

\* "None"
S_NONE == <<78, 111, 110, 101>>

\* "video"
S_VIDEO == <<118, 105, 100, 101, 111>>

\* "pdf"
S_PDF == <<112, 100, 102>>

\* "image"
S_IMAGE == <<105, 109, 97, 103, 101>>

\* "other"
S_OTHER == <<111, 116, 104, 101, 114>>

\* "file"
S_FILE == <<102, 105, 108, 101>>

\* "UNKNOWN"
S_UNKNOWN == <<85, 78, 75, 78, 79, 87, 78>>

\* ".mp4"
S_MP4 == <<46, 109, 112, 52>>

\* ".pdf"
S_PDF_EXT == <<46, 112, 100, 102>>

\* ".png"
S_PNG == <<46, 112, 110, 103>>

\* "USB1"
S_USB1 == <<85, 83, 66, 49>>

\* SupportedExts.VIDEOS = {".mp4", ".mkv", ".mov", ".avi", ".m4v"}
VIDEOS == {<<46, 109, 112, 52>>, <<46, 109, 107, 118>>, <<46, 109, 111, 118>>, <<46, 97, 118, 105>>, <<46, 109, 52, 118>>}

\* SupportedExts.PDFS = {".pdf"}
PDFS == {<<46, 112, 100, 102>>}

\* SupportedExts.IMAGES = {".png", ".jpg", ".jpeg", ".gif", ".bmp", ".webp"}
IMAGES == {<<46, 112, 110, 103>>,
           <<46, 106, 112, 103>>,
           <<46, 106, 112, 101, 103>>,
           <<46, 103, 105, 102>>,
           <<46, 98, 109, 112>>,
           <<46, 119, 101, 98, 112>>}

\* "/src/A"
S_ROOT_A == <<47, 115, 114, 99, 47, 65>>

\* "/src/B"
S_ROOT_B == <<47, 115, 114, 99, 47, 66>>

\* "a.MP4"
S_REL_VIDEO == <<97, 46, 77, 80, 52>>

\* ".h.pdf"
S_REL_HIDDEN == <<46, 104, 46, 112, 100, 102>>

\* "d/b.pdf"
S_REL_PDF == <<100, 47, 98, 46, 112, 100, 102>>

\* "x/c.png"
S_REL_UNLISTED == <<120, 47, 99, 46, 112, 110, 103>>

\* ".bin"
S_BIN == <<46, 98, 105, 110>>

-----------------------------------------------------------------------------
(* Python values held in a manifest (what json.loads can return)            *)
(*   [t |-> "none" | "int" | "str" | "list" | "dict", v |-> payload]        *)
(* a str payload is a sequence of code points, a list payload a sequence   *)
(* of values, a dict payload a function from key names to values.          *)

PyNone == [t |-> "none", v |-> 0]
PyInt(n) == [t |-> "int", v |-> n]
PyStr(s) == [t |-> "str", v |-> s]
PyList(l) == [t |-> "list", v |-> l]
PyDict(d) == [t |-> "dict", v |-> d]

\* {}
EmptyDict == PyDict([k \in {} |-> PyNone])

\* bool(v)
Truthy(v) ==
    CASE v.t = "none" -> FALSE
      [] v.t = "int"  -> v.v # 0
      [] v.t = "str"  -> Len(v.v) > 0
      [] v.t = "list" -> Len(v.v) > 0
      [] OTHER        -> DOMAIN v.v # {}

\* v or d
PyOr(v, d) == IF Truthy(v) THEN v ELSE d

\* d.get(k, default) on a dict value d
Get(d, k, default) == IF k \in DOMAIN d.v THEN d.v[k] ELSE default

\* d.get(k): None when missing
GetOrNone(d, k) == Get(d, k, PyNone)

RECURSIVE DecimalDigits(_)
DecimalDigits(n) ==
    IF n < 10 THEN <<48 + n>> ELSE Append(DecimalDigits(n \div 10), 48 + (n % 10))

\* str(v): exact for str, int >= 0 and None; a list or dict gives its
\* bracketed repr, of which only the brackets are kept.
PyStrOf(v) ==
    CASE v.t = "str"  -> v.v
      [] v.t = "int"  -> DecimalDigits(v.v)
      [] v.t = "none" -> S_NONE
      [] v.t = "list" -> <<91, 93>>
      [] OTHER        -> <<123, 125>>

IsDigits(s) == Len(s) > 0 /\ \A i \in 1..Len(s) : s[i] \in 48..57

RECURSIVE DecimalValue(_)
DecimalValue(s) ==
    IF Len(s) = 0 THEN 0
    ELSE 10 * DecimalValue(SubSeq(s, 1, Len(s) - 1)) + (s[Len(s)] - 48)

\* int(v): an int as it is, a str of decimal digits parsed; TypeError for
\* None, a list or a dict, ValueError for any other str.
PyIntOf(v) ==
    CASE v.t = "int" -> Ok(v.v)
      [] v.t = "str" -> IF IsDigits(v.v) /\ Len(v.v) <= 4 THEN Ok(DecimalValue(v.v))
                        ELSE Raise("ValueError")
      [] OTHER       -> Raise("TypeError")

\* v[:n]: a str or a list is cut, anything else is not subscriptable.
PySliceTo(v, n) ==
    IF v.t \in {"str", "list"}
    THEN Ok([t |-> v.t, v |-> Slice(v.v, 0, Min(n, Len(v.v)))])
    ELSE Raise("TypeError")

-----------------------------------------------------------------------------
(* json.dumps / json.loads. The JSON text is modelled as a tagged,          *)
(* length-prefixed byte stream: one type byte (0 None, 1 int, 2 str,        *)
(* 3 list, 4 dict), a two-byte big-endian length or value, the payload;     *)
(* a dict key is the index of its name in KeyNames. Loading fails on any    *)
(* byte string that is not the image of a value.                            *)

KeyNames == <<"version", "package_id", "drive_id", "roots", "files",
              "index", "name", "path_hint",
              "root_index", "root_name", "relpath", "kind", "desc", "quiz",
              "enc_name", "size", "nonce_b64", "tag_b64", "wrapped_key_b64",
              "mime", "q", "options", "correct_index",
              "license", "enc_drive_key_b64", "sig_b64", "server_sign_pub_pem",
              "code", "pkg_id", "folder", "status">>

RECURSIVE Flatten(_, _, _)
Flatten(ss, lo, hi) ==
    IF lo > hi THEN <<>>
    ELSE IF lo = hi THEN ss[lo]
    ELSE LET mid == (lo + hi) \div 2
         IN  Flatten(ss, lo, mid) \o Flatten(ss, mid + 1, hi)

RECURSIVE JsonDumps(_)
JsonDumps(v) ==
    CASE v.t = "none" -> <<0>>
      [] v.t = "int"  -> <<1, Hi(v.v), Lo(v.v)>>
      [] v.t = "str"  -> <<2, Hi(Len(v.v)), Lo(Len(v.v))>> \o v.v
      [] v.t = "list" ->
            <<3, Hi(Len(v.v)), Lo(Len(v.v))>>
            \o Flatten([i \in 1..Len(v.v) |-> JsonDumps(v.v[i])], 1, Len(v.v))
      [] OTHER ->
            LET ks == SelectSeq([i \in 1..Len(KeyNames) |-> i],
                                LAMBDA i : KeyNames[i] \in DOMAIN v.v)
            IN  <<4, Len(ks)>>
                \o Flatten([j \in 1..Len(ks) |->
                              <<ks[j]>> \o JsonDumps(v.v[KeyNames[ks[j]]])],
                           1, Len(ks))

ParseFail == [ok |-> FALSE, v |-> PyNone, next |-> 0]

\* The items of a list are parsed in blocks of 32 and the blocks in chunks
\* of 32 blocks, so that the depth of the evaluation stays small for long
\* lists.
RECURSIVE JsonParse(_, _), ParseItems(_, _, _, _), ParseBlocks(_, _, _, _),
          ParseChunks(_, _, _, _), ParseFields(_, _, _, _)

ParseItems(b, pos, k, acc) ==
    IF k = 0 THEN [ok |-> TRUE, v |-> acc, next |-> pos]
    ELSE LET r == JsonParse(b, pos)
         IN  IF ~r.ok THEN [ok |-> FALSE, v |-> <<>>, next |-> 0]
             ELSE ParseItems(b, r.next, k - 1, Append(acc, r.v))

ParseBlocks(b, pos, k, acc) ==
    IF k = 0 THEN [ok |-> TRUE, v |-> acc, next |-> pos]
    ELSE LET r == ParseItems(b, pos, Min(k, 32), <<>>)
         IN  IF ~r.ok THEN r
             ELSE ParseBlocks(b, r.next, k - Min(k, 32), acc \o r.v)

ParseChunks(b, pos, k, acc) ==
    IF k = 0 THEN [ok |-> TRUE, v |-> acc, next |-> pos]
    ELSE LET r == ParseBlocks(b, pos, Min(k, 1024), <<>>)
         IN  IF ~r.ok THEN r
             ELSE ParseChunks(b, r.next, k - Min(k, 1024), acc \o r.v)

ParseFields(b, pos, k, acc) ==
    IF k = 0 THEN [ok |-> TRUE, v |-> acc, next |-> pos]
    ELSE IF pos > Len(b) \/ b[pos] \notin 1..Len(KeyNames)
    THEN [ok |-> FALSE, v |-> acc, next |-> 0]
    ELSE LET r == JsonParse(b, pos + 1)
         IN  IF ~r.ok \/ KeyNames[b[pos]] \in DOMAIN acc
             THEN [ok |-> FALSE, v |-> acc, next |-> 0]
             ELSE ParseFields(b, r.next, k - 1,
                              [x \in DOMAIN acc \cup {KeyNames[b[pos]]} |->
                                 IF x = KeyNames[b[pos]] THEN r.v ELSE acc[x]])

JsonParse(b, pos) ==
    IF pos > Len(b) THEN ParseFail
    ELSE CASE b[pos] = 0 -> [ok |-> TRUE, v |-> PyNone, next |-> pos + 1]
           [] b[pos] = 1 ->
                IF pos + 2 > Len(b) THEN ParseFail
                ELSE [ok |-> TRUE, v |-> PyInt(b[pos + 1] * 256 + b[pos + 2]),
                      next |-> pos + 3]
           [] b[pos] = 2 ->
                IF pos + 2 > Len(b) THEN ParseFail
                ELSE LET n == b[pos + 1] * 256 + b[pos + 2]
                     IN  IF pos + 2 + n > Len(b) THEN ParseFail
                         ELSE [ok |-> TRUE, v |-> PyStr(Slice(b, pos + 2, pos + 2 + n)),
                               next |-> pos + 3 + n]
           [] b[pos] = 3 ->
                IF pos + 2 > Len(b) THEN ParseFail
                ELSE LET r == ParseChunks(b, pos + 3, b[pos + 1] * 256 + b[pos + 2], <<>>)
                     IN  IF ~r.ok THEN ParseFail
                         ELSE [ok |-> TRUE, v |-> PyList(r.v), next |-> r.next]
           [] b[pos] = 4 ->
                IF pos + 1 > Len(b) THEN ParseFail
                ELSE LET r == ParseFields(b, pos + 2, b[pos + 1], [k \in {} |-> PyNone])
                     IN  IF ~r.ok THEN ParseFail
                         ELSE [ok |-> TRUE, v |-> PyDict(r.v), next |-> r.next]
           [] OTHER -> ParseFail

\* json.loads(raw.decode("utf-8"))
JsonLoads(b) ==
    LET r == JsonParse(b, 1)
    IN  IF r.ok /\ r.next = Len(b) + 1 THEN Ok(r.v) ELSE Raise("JSONDecodeError")

-----------------------------------------------------------------------------
(* EpassionPlayer/core/content.py: manifest decryption and validation       *)

MAX_ROOTS == 32
MAX_FILES == 10000
MAX_STR_LEN == 1024
MAX_FILENAME_LEN == 255

\* c.isalnum() for an ASCII character
IsAlnum(c) == c \in (48..57) \cup (65..90) \cup (97..122)

\* ".." in name
HasDotDot(name) == \E i \in 1..(Len(name) - 1) : name[i] = 46 /\ name[i + 1] = 46

HasChar(name, c) == \E i \in 1..Len(name) : name[i] = c

\* _is_safe_filename without the test for "..".
is_safe_filename_no_dotdot(name) ==
    IF Len(name) = 0 \/ Len(name) > MAX_FILENAME_LEN THEN FALSE
    ELSE IF HasChar(name, 47) \/ HasChar(name, 92) THEN FALSE
    ELSE \A i \in 1..Len(name) : IsAlnum(name[i]) \/ name[i] \in {45, 95, 46}

\* _is_safe_filename(name): '/' is 47, '\' is 92, '-' 45, '_' 95, '.' 46
is_safe_filename(name) ==
    IF Len(name) = 0 \/ Len(name) > MAX_FILENAME_LEN THEN FALSE
    ELSE IF HasChar(name, 47) \/ HasChar(name, 92) \/ HasDotDot(name) THEN FALSE
    ELSE \A i \in 1..Len(name) : IsAlnum(name[i]) \/ name[i] \in {45, 95, 46}

\* AESGCM(key): the key must be 128, 192 or 256 bits long.
AESGCM_new(key) ==
    IF Len(key) \in {16, 24, 32} THEN Ok(key) ELSE Raise("ValueError")

\* The manifest plaintext taken without the tag being checked.
ManifestPlainUnverified(data, drive_key) ==
    Ok(CtrDecrypt(drive_key, Slice(data, 0, 12), 0, Slice(data, 12, Len(data) - 16)))

\* _decrypt_manifest lines 25-28: nonce = data[:12], ciphertext = data[12:],
\* AESGCM(drive_key).decrypt(nonce, ciphertext, None)
ManifestPlain(data, drive_key) ==
    LET aes == AESGCM_new(drive_key)
    IN  IF ~aes.ok THEN aes
        ELSE AESGCM_decrypt(drive_key, Slice(data, 0, Min(12, Len(data))),
                            Slice(data, Min(12, Len(data)), Len(data)))

\* _decrypt_manifest(enc_path, drive_key) on the bytes read from enc_path
decrypt_manifest(data, drive_key) ==
    IF Len(data) < 12 + 16 THEN Raise("ValueError")
    ELSE LET raw == ManifestPlain(data, drive_key)
         IN  IF ~raw.ok THEN raw
             ELSE LET j == JsonLoads(raw.v)
                  IN  IF ~j.ok THEN Raise("ValueError") ELSE j

\* str(x)[:n]
StrCut(x, n) == Slice(PyStrOf(x), 0, Min(n, Len(PyStrOf(x))))

\* PackageView.__init__ lines 75-78, one element r of roots.
RootOf(r) ==
    IF r.t = "dict"
    THEN LET idx == PyIntOf(Get(r, "index", PyInt(0)))
         IN  IF ~idx.ok THEN idx
             ELSE Ok([index |-> idx.v,
                      name |-> StrCut(Get(r, "name", PyStr(<<>>)), MAX_STR_LEN),
                      path_hint |-> Get(r, "path_hint", PyStr(<<>>))])
    ELSE Ok([index |-> 0, name |-> <<>>, path_hint |-> PyStr(<<>>)])

NoEntry == [root_index |-> 0, root_name |-> <<>>, relpath |-> <<>>, kind |-> <<>>,
            desc |-> EmptyDict, quiz |-> PyNone]

Skip == [act |-> "skip", entry |-> NoEntry, err |-> "none"]

Fail(e) == [act |-> "raise", entry |-> NoEntry, err |-> e]

\* PackageView.__init__ lines 87-106, one element f of files: the element
\* is skipped (continue), makes the constructor raise, or gives a FileEntry.
FileOf(f) ==
    IF f.t # "dict" THEN Skip
    ELSE LET root_index == PyIntOf(Get(f, "root_index", PyInt(0)))
             desc == PyOr(GetOrNone(f, "desc"), EmptyDict)
         IN  IF ~root_index.ok THEN Fail(root_index.err)
             ELSE IF desc.t # "dict" THEN Skip
             ELSE LET enc_name == PyStrOf(Get(desc, "enc_name", PyStr(<<>>)))
                      wrapped_key == PyOr(GetOrNone(desc, "wrapped_key_b64"),
                                          GetOrNone(desc, "wrapped_key_b64"))
                  IN  IF ~is_safe_filename(enc_name) THEN Fail("ValueError")
                      ELSE IF \/ ~Truthy(GetOrNone(desc, "nonce_b64"))
                              \/ ~Truthy(GetOrNone(desc, "tag_b64"))
                              \/ ~Truthy(wrapped_key)
                      THEN Fail("ValueError")
                      ELSE [act |-> "entry", err |-> "none",
                            entry |-> [root_index |-> root_index.v,
                                       root_name |-> StrCut(Get(f, "root_name", PyStr(<<>>)),
                                                            MAX_STR_LEN),
                                       relpath |-> StrCut(Get(f, "relpath", PyStr(<<>>)),
                                                          MAX_STR_LEN),
                                       kind |-> StrCut(Get(f, "kind", PyStr(S_FILE)), 32),
                                       desc |-> desc,
                                       quiz |-> GetOrNone(f, "quiz")]]

\* PackageView.__init__(root_path, manifest). The two loops carry no state
\* from one element to the next but the list they append to, so each
\* element is evaluated on its own and the first failure, if any, raises.
PackageView(manifest) ==
    LET package_id == PySliceTo(Get(manifest, "package_id", PyStr(<<>>)), MAX_STR_LEN)
        drive_id   == PySliceTo(Get(manifest, "drive_id", PyStr(S_UNKNOWN)), MAX_STR_LEN)
        roots      == PyOr(GetOrNone(manifest, "roots"), PyList(<<>>))
        files      == PyOr(GetOrNone(manifest, "files"), PyList(<<>>))
    IN  IF ~package_id.ok THEN package_id
        ELSE IF ~drive_id.ok THEN drive_id
        ELSE IF roots.t # "list" THEN Raise("ValueError")
        ELSE IF Len(roots.v) > MAX_ROOTS THEN Raise("ValueError")
        ELSE LET rs == Tuple([i \in 1..Len(roots.v) |-> RootOf(roots.v[i])])
             IN  IF \E i \in 1..Len(rs) : ~rs[i].ok
                 THEN Raise(rs[CHOOSE i \in 1..Len(rs) :
                                 ~rs[i].ok /\ \A j \in 1..(i - 1) : rs[j].ok].err)
                 ELSE IF files.t # "list" THEN Raise("ValueError")
                 ELSE IF Len(files.v) > MAX_FILES THEN Raise("ValueError")
                 ELSE LET fs == Tuple([i \in 1..Len(files.v) |-> FileOf(files.v[i])])
                      IN  IF \E i \in 1..Len(fs) : fs[i].act = "raise"
                          THEN Raise(fs[CHOOSE i \in 1..Len(fs) :
                                          /\ fs[i].act = "raise"
                                          /\ \A j \in 1..(i - 1) : fs[j].act # "raise"].err)
                          ELSE LET kept == SelectSeq(fs, LAMBDA x : x.act = "entry")
                               IN  Ok([package_id |-> package_id.v,
                                       drive_id |-> drive_id.v,
                                       roots |-> [i \in 1..Len(rs) |-> rs[i].v],
                                       files |-> [i \in 1..Len(kept) |-> kept[i].entry]])

NoView == [package_id |-> PyStr(<<>>), drive_id |-> PyStr(<<>>), roots |-> <<>>,
           files |-> <<>>]

-----------------------------------------------------------------------------
(* AdminEncryptor/packager.py: names, kinds, the source trees                *)

\* b.hex(): two lower-case hexadecimal digits per byte
HexDigit(n) == IF n < 10 THEN 48 + n ELSE 87 + n

Hex(b) ==
    Tuple([k \in 1..(2 * Len(b)) |->
              IF k % 2 = 1 THEN HexDigit(b[(k + 1) \div 2] \div 16)
                           ELSE HexDigit(b[k \div 2] % 16)])

\* How many outcomes secrets.token_hex has in _random_name.
NumNames == 2

\* The i-th outcome of the random bytes behind token_hex(n).
TokenBytes(i, n) == Tuple([j \in 1..n |-> (53 * i + 7 * j) % 256])

\* PackageBuilder._random_name: f"{token_hex(6)}_{token_hex(2)}.bin"
random_name(r6, r2) == Hex(r6) \o <<95>> \o Hex(r2) \o S_BIN

RandomNames == {random_name(TokenBytes(i, 6), TokenBytes(i, 2)) : i \in 1..NumNames}

\* How many outcomes uuid.uuid4() has.
NumUuids == 1

\* str(uuid.UUID(bytes=b, version=4)): version and variant bits forced,
\* 32 hexadecimal digits grouped 8-4-4-4-12 with '-' (45).
UuidStr(b) ==
    LET v == [j \in 1..16 |-> IF j = 7 THEN 64 + (b[j] % 16)
                              ELSE IF j = 9 THEN 128 + (b[j] % 64)
                              ELSE b[j]]
        h == Hex(v)
    IN  Slice(h, 0, 8) \o <<45>> \o Slice(h, 8, 12) \o <<45>> \o Slice(h, 12, 16)
        \o <<45>> \o Slice(h, 16, 20) \o <<45>> \o Slice(h, 20, 32)

Uuids == {UuidStr(Tuple([j \in 1..16 |-> (101 * i + 13 * j) % 256])) : i \in 1..NumUuids}

\* str.lower() on ASCII
Lower(s) == Tuple([i \in 1..Len(s) |-> IF s[i] \in 65..90 THEN s[i] + 32 ELSE s[i]])

\* Index of the last occurrence of c in s, 0 when there is none.
LastIndexOf(s, c) ==
    IF \E i \in 1..Len(s) : s[i] = c
    THEN CHOOSE i \in 1..Len(s) : s[i] = c /\ \A j \in (i + 1)..Len(s) : s[j] # c
    ELSE 0

\* PurePath.name: the last component of a posix path ('/' is 47)
PathName(path) == Slice(path, LastIndexOf(path, 47), Len(path))

\* PurePath.suffix: from the last '.' of the name, unless that dot is the
\* first or the last character of the name.
PathSuffix(path) ==
    LET name == PathName(path)
        i    == LastIndexOf(name, 46)
    IN  IF 1 < i /\ i < Len(name) THEN Slice(name, i - 1, Len(name)) ELSE <<>>

\* detect_kind(p)
detect_kind(p) ==
    LET ext == Lower(PathSuffix(p))
    IN  IF ext \in VIDEOS THEN S_VIDEO
        ELSE IF ext \in PDFS THEN S_PDF
        ELSE IF ext \in IMAGES THEN S_IMAGE
        ELSE S_OTHER

\* _mime(kind)
mime_of(kind) ==
    IF kind = S_VIDEO THEN S_VIDEO
    ELSE IF kind = S_PDF THEN S_PDF
    ELSE IF kind = S_IMAGE THEN S_IMAGE
    ELSE S_FILE

\* encrypt_bytes_aesgcm(key, data) with nonce the outcome of os.urandom(12)
encrypt_bytes_aesgcm(key, nonce, data) == nonce \o AESGCM_encrypt(key, nonce, data)

\* chunk_size default of encrypt_file_aesgcm_stream
DEFAULT_CHUNK == 8 * 1024 * 1024

\* The ciphertext the loop of encrypt_file_aesgcm_stream has written once
\* it has read src from offset pos on, ct being what it wrote before.
RECURSIVE EncLoop(_, _, _, _, _, _)
EncLoop(key, nonce, src, pos, chunk_size, ct) ==
    LET buf == FileRead(src, pos, chunk_size)
    IN  IF buf = <<>> THEN ct
        ELSE EncLoop(key, nonce, src, pos + Len(buf), chunk_size,
                     ct \o CtrEncrypt(key, nonce, Len(ct), buf))

\* encrypt_file_aesgcm_stream run to its end: the bytes of dst_path and the
\* returned tuple (content_key_b64, nonce_b64, tag_b64, size).
encrypt_file_aesgcm_stream(src, key, nonce, chunk_size) ==
    LET ct  == EncLoop(key, nonce, src, 0, chunk_size, <<>>)
        tag == GcmTag(key, nonce, ct)
    IN  [dst |-> nonce \o ct \o tag,
         ret |-> [ck_b64 |-> b64e(key), nonce_b64 |-> b64e(nonce),
                  tag_b64 |-> b64e(tag), size |-> Len(src)]]

\* encrypt_file_aesgcm(src_path, dst_path)
encrypt_file_aesgcm(src, key, nonce) ==
    encrypt_file_aesgcm_stream(src, key, nonce, DEFAULT_CHUNK)

-----------------------------------------------------------------------------
(* AdminEncryptor/packager.py: PackageBuilder                               *)

\* The source folders handed to set_roots_and_quizzes: one root holding a
\* video, a hidden file, an empty PDF in a subfolder and an image in a
\* subfolder x that cannot be listed (os.scandir fails on it), and one root
\* that no longer exists when build() runs.
SourceRoots ==
    << [path |-> S_ROOT_A, exists |-> TRUE,
        files |-> << [relpath |-> S_REL_VIDEO, data |-> <<80, 75, 3>>, listed |-> TRUE],
                     [relpath |-> S_REL_HIDDEN, data |-> <<9>>, listed |-> TRUE],
                     [relpath |-> S_REL_PDF, data |-> <<>>, listed |-> TRUE],
                     [relpath |-> S_REL_UNLISTED, data |-> <<7>>, listed |-> FALSE] >>],
       [path |-> S_ROOT_B, exists |-> FALSE, files |-> <<>>] >>

\* _walk_all_files, one root with 0-based index i: its files in the order
\* os.walk gives them, hidden names (p.name starting with '.') left out.
\* os.walk(root) is called without onerror, so a directory whose listing
\* fails is passed over and the files below it are not yielded.
WalkRoot(i, root) ==
    LET all == [k \in 1..Len(root.files) |->
                   [root_idx |-> i,
                    relpath  |-> root.files[k].relpath,
                    abs_key  |-> root.path \o <<47>> \o root.files[k].relpath,
                    data     |-> root.files[k].data,
                    listed   |-> root.files[k].listed]]
    IN  SelectSeq(all, LAMBDA f : f.listed /\ PathName(f.relpath)[1] # 46)

\* _walk_all_files over roots[i..] (1-based position i)
RECURSIVE WalkFrom(_, _)
WalkFrom(roots, i) ==
    IF i > Len(roots) THEN <<>>
    ELSE (IF roots[i].exists THEN WalkRoot(i - 1, roots[i]) ELSE <<>>)
         \o WalkFrom(roots, i + 1)

walk_all_files(roots) == WalkFrom(roots, 1)

\* str.strip(): leading and trailing white space removed
IsSpace(c) == c \in {32, 9, 10, 11, 12, 13}

Strip(s) ==
    IF \A i \in 1..Len(s) : IsSpace(s[i]) THEN <<>>
    ELSE LET a == CHOOSE i \in 1..Len(s) :
                      ~IsSpace(s[i]) /\ \A j \in 1..(i - 1) : IsSpace(s[j])
             b == CHOOSE i \in 1..Len(s) :
                      ~IsSpace(s[i]) /\ \A j \in (i + 1)..Len(s) : IsSpace(s[j])
         IN  Slice(s, a - 1, b)

\* A loop that attaches every item that is an object, as it is.
QuizItemUnchecked(q) ==
    IF q.t # "dict" THEN [act |-> "raise", item |-> PyNone]
    ELSE [act |-> "item", item |-> q]

\* build lines 135-148, one quiz item q: it is kept ("item"), dropped
\* ("skip"), or an attribute access on it raises ("raise").
QuizItem(q) ==
    IF q.t # "dict" THEN [act |-> "raise", item |-> PyNone]
    ELSE
    LET text0   == PyOr(GetOrNone(q, "q"), PyStr(<<>>))
        options == PyOr(GetOrNone(q, "options"), PyList(<<>>))
        correct == GetOrNone(q, "correct_index")
    IN  IF text0.t # "str" THEN [act |-> "raise", item |-> PyNone]
        ELSE IF Strip(text0.v) = <<>> \/ options.t # "list" THEN [act |-> "skip", item |-> PyNone]
        ELSE IF Len(options.v) # 4 THEN [act |-> "skip", item |-> PyNone]
        ELSE LET o0 == [k \in 1..4 |-> PyOr(options.v[k], PyStr(<<>>))]
             IN  IF \E k \in 1..4 : o0[k].t # "str" THEN [act |-> "raise", item |-> PyNone]
                 ELSE LET opts == [k \in 1..4 |-> Strip(o0[k].v)]
                      IN  IF \/ \E k \in 1..4 : opts[k] = <<>>
                             \/ Cardinality({opts[k] : k \in 1..4}) < 4
                             \/ correct.t # "int"
                          THEN [act |-> "skip", item |-> PyNone]
                          ELSE IF ~(0 <= correct.v /\ correct.v <= 3)
                          THEN [act |-> "skip", item |-> PyNone]
                          ELSE [act |-> "item",
                                item |-> PyDict([q |-> PyStr(Strip(text0.v)),
                                                 options |-> PyList([k \in 1..4 |-> PyStr(opts[k])]),
                                                 correct_index |-> correct])]

\* build lines 133-150: the quiz attached to the file at abs_key.
NormalizedQuiz(quiz_map, abs_key) ==
    LET items == IF abs_key \in DOMAIN quiz_map THEN quiz_map[abs_key] ELSE <<>>
        first == Slice(items, 0, Min(2, Len(items)))
        qs    == [k \in 1..Len(first) |-> QuizItem(first[k])]
    IN  IF \E k \in 1..Len(qs) : qs[k].act = "raise" THEN Raise("AttributeError")
        ELSE LET kept == SelectSeq(qs, LAMBDA x : x.act = "item")
             IN  Ok([k \in 1..Len(kept) |-> kept[k].item])

\* _encrypt_and_describe lines 83-90: the descriptor of one encrypted file.
Describe(drive_key, enc_name, ret, kind) ==
    LET wrapped == aes_kw_wrap(drive_key, ret.ck_b64)
    IN  IF ~wrapped.ok THEN wrapped
        ELSE Ok(PyDict([enc_name |-> PyStr(enc_name),
                        size |-> PyInt(ret.size),
                        nonce_b64 |-> PyStr(ret.nonce_b64),
                        tag_b64 |-> PyStr(ret.tag_b64),
                        wrapped_key_b64 |-> PyStr(wrapped.v),
                        mime |-> PyStr(mime_of(kind))]))

\* build lines 120-152: the manifest entry of one file.
EntryOf(roots, quiz_map, f, desc) ==
    LET kind  == detect_kind(f.relpath)
        base  == [root_index |-> PyInt(f.root_idx),
                  root_name |-> PyStr(PathName(roots[f.root_idx + 1].path)),
                  relpath |-> PyStr(f.relpath),
                  kind |-> PyStr(kind),
                  desc |-> desc]
        quiz  == IF kind = S_VIDEO THEN NormalizedQuiz(quiz_map, f.abs_key) ELSE Ok(<<>>)
    IN  IF ~quiz.ok THEN quiz
        ELSE IF quiz.v # <<>>
        THEN Ok(PyDict([root_index |-> base.root_index, root_name |-> base.root_name,
                        relpath |-> base.relpath, kind |-> base.kind,
                        desc |-> base.desc, quiz |-> PyList(quiz.v)]))
        ELSE Ok(PyDict(base))

\* build lines 155-163: the manifest dictionary
ManifestOf(package_id, drive_id, roots, files_desc) ==
    PyDict([version |-> PyInt(4),
            package_id |-> PyStr(package_id),
            drive_id |-> PyStr(drive_id),
            roots |-> PyList([i \in 1..Len(roots) |->
                         PyDict([index |-> PyInt(i - 1),
                                 name |-> PyStr(PathName(roots[i].path)),
                                 path_hint |-> PyStr(PathName(roots[i].path))])]),
            files |-> PyList(files_desc)])

\* A directory as a function from file names to file contents.
NoFiles == [n \in {} |-> <<>>]

WriteFile(dir, name, data) ==
    [n \in (DOMAIN dir) \cup {name} |-> IF n = name THEN data ELSE dir[n]]

RemoveFile(dir, name) == [n \in (DOMAIN dir) \ {name} |-> dir[n]]

\* An empty target: no SecureContent folder yet.
EmptyMedium == [manifest |-> NoFile, pkgid |-> NoFile, content |-> NoFiles,
                license |-> NoFile]

\* The target directory handed to PackageBuilder (app.py: "USB root (e.g.,
\* E:\\ or any target directory)"), as the sequence of its path components.
TARGET_ROOT == <<"E:">>

\* Path(__file__).parent of packager.py: where the admin tool is installed.
MODULE_DIR == <<"C:", "AdminEncryptor">>

\* The admin tool run from a folder of the target drive itself.
MODULE_DIR_ON_TARGET == <<"E:", "AdminEncryptor">>

ModuleDirs == {MODULE_DIR, MODULE_DIR_ON_TARGET}

\* No builder at work.
BldIdle == [pc |-> "none", package_id |-> <<>>, drive_key |-> <<>>, drive_id |-> <<>>,
            roots |-> <<>>, quiz_map |-> <<>>, write_package_id_txt |-> TRUE,
            walk |-> <<>>, i |-> 0, files_desc |-> <<>>,
            file_failed |-> FALSE, err |-> "none",
            instance |-> 1, calls |-> 1, returned |-> <<>>,
            target_root |-> TARGET_ROOT, module_dir |-> MODULE_DIR]

\* PackageBuilder.__init__ and set_roots_and_quizzes: the object build() is
\* called on. package_id and drive_key are drawn in the constructor.
BldNew(package_id, drive_key) ==
    [BldIdle EXCEPT !.pc = "new", !.package_id = package_id, !.drive_key = drive_key,
                    !.drive_id = S_USB1, !.roots = SourceRoots]

\* build: an exception leaves the call; nothing in build() catches it.
BuildRaise(b, e) == [b EXCEPT !.pc = "failed", !.err = e]

\* A build() whose file loop goes on to the next file after an error.
BuildFileRaiseSwallowed(b, e) == [b EXCEPT !.i = @ + 1, !.file_failed = TRUE]

\* build line 119: _encrypt_and_describe raised for the file at position i.
BuildFileRaise(b, e) == [BuildRaise(b, e) EXCEPT !.file_failed = TRUE]

\* build lines 110-116: the roots check, mkdir of content/, the file list.
BuildStart ==
    /\ bld.pc = "new"
    /\ bld' = IF bld.roots = <<>> THEN BuildRaise(bld, "RuntimeError")
              ELSE [bld EXCEPT !.pc = "loop", !.walk = walk_all_files(bld.roots),
                               !.i = 1, !.files_desc = <<>>]
    /\ UNCHANGED <<kw, st, medium, escrow, ld, op, tmpfs, adv, pl, stor, keyp, recd>>

\* build lines 118-152, one turn of the loop in which nothing fails: the
\* file is encrypted under a fresh content key and nonce into
\* content/<enc_name> (opened "wb") and its entry is appended.
BuildFile(enc_name, content_key, nonce) ==
    /\ bld.pc = "loop"
    /\ bld.i <= Len(bld.walk)
    /\ LET f     == bld.walk[bld.i]
           enc   == encrypt_file_aesgcm(f.data, content_key, nonce)
           desc  == Describe(bld.drive_key, enc_name, enc.ret, detect_kind(f.relpath))
           entry == EntryOf(bld.roots, bld.quiz_map, f, desc.v)
       IN  /\ medium' = [medium EXCEPT !.content = WriteFile(@, enc_name, enc.dst)]
           /\ bld' = IF ~desc.ok THEN BuildFileRaise(bld, desc.err)
                     ELSE IF ~entry.ok THEN BuildRaise(bld, entry.err)
                     ELSE [bld EXCEPT !.files_desc = Append(@, entry.v), !.i = @ + 1]
    /\ UNCHANGED <<kw, st, escrow, ld, op, tmpfs, adv, pl, stor, keyp, recd>>

\* build line 119 when encrypt_file_aesgcm raises for the source file (it
\* cannot be sized, opened or read; the output cannot be written). With
\* started, the output had been opened and holds the nonce only.
BuildFileFail(enc_name, nonce, started) ==
    /\ bld.pc = "loop"
    /\ bld.i <= Len(bld.walk)
    /\ medium' = IF started
                 THEN [medium EXCEPT !.content = WriteFile(@, enc_name, nonce)]
                 ELSE medium
    /\ bld' = BuildFileRaise(bld, "OSError")
    /\ UNCHANGED <<kw, st, escrow, ld, op, tmpfs, adv, pl, stor, keyp, recd>>

\* build lines 155-168: the manifest is encrypted and written.
BuildManifest(nonce) ==
    /\ bld.pc = "loop"
    /\ bld.i > Len(bld.walk)
    /\ LET manifest == ManifestOf(bld.package_id, bld.drive_id, bld.roots, bld.files_desc)
           enc_manifest == encrypt_bytes_aesgcm(bld.drive_key, nonce, JsonDumps(manifest))
       IN  medium' = [medium EXCEPT !.manifest = File(enc_manifest)]
    /\ bld' = [bld EXCEPT !.pc = "manifest_written"]
    /\ UNCHANGED <<kw, st, escrow, ld, op, tmpfs, adv, pl, stor, keyp, recd>>

\* build line 168 when write_bytes raises: with created, manifest.enc had
\* been opened for writing and is left empty.
BuildManifestFail(created) ==
    /\ bld.pc = "loop"
    /\ bld.i > Len(bld.walk)
    /\ medium' = IF created THEN [medium EXCEPT !.manifest = File(<<>>)] ELSE medium
    /\ bld' = BuildRaise(bld, "OSError")
    /\ UNCHANGED <<kw, st, escrow, ld, op, tmpfs, adv, pl, stor, keyp, recd>>

\* build lines 170-171
BuildPackageId ==
    /\ bld.pc = "manifest_written"
    /\ medium' = IF bld.write_package_id_txt
                 THEN [medium EXCEPT !.pkgid = File(bld.package_id)]
                 ELSE medium
    /\ bld' = [bld EXCEPT !.pc = "pkgid_done"]
    /\ UNCHANGED <<kw, st, escrow, ld, op, tmpfs, adv, pl, stor, keyp, recd>>

\* build line 171 when write_text raises.
BuildPackageIdFail ==
    /\ bld.pc = "manifest_written"
    /\ bld.write_package_id_txt
    /\ bld' = BuildRaise(bld, "OSError")
    /\ UNCHANGED <<kw, st, medium, escrow, ld, op, tmpfs, adv, pl, stor, keyp, recd>>

\* _export_drive_key: the escrow record written under admin_keys, and the
\* return of build().
EscrowRecord(b) ==
    [package_id |-> b.package_id, drive_id |-> b.drive_id,
     drive_key_hex |-> Hex(b.drive_key),
     folder |-> b.module_dir \o <<"admin_keys">>]

\* What build() returns at line 174, with the object it was called on.
Returned(b) ==
    [instance |-> b.instance, package_id |-> b.package_id, drive_key |-> b.drive_key]

BuildExport ==
    /\ bld.pc = "pkgid_done"
    /\ escrow' = escrow \cup {EscrowRecord(bld)}
    /\ bld' = [bld EXCEPT !.pc = "done", !.returned = Append(@, Returned(bld))]
    /\ UNCHANGED <<kw, st, medium, ld, op, tmpfs, adv, pl, stor, keyp, recd>>

\* build line 173 when _export_drive_key raises.
BuildExportFail ==
    /\ bld.pc = "pkgid_done"
    /\ bld' = BuildRaise(bld, "OSError")
    /\ UNCHANGED <<kw, st, medium, escrow, ld, op, tmpfs, adv, pl, stor, keyp, recd>>

\* How many build() calls a behaviour holds.
MaxBuilds == 2

\* build() called once more on the same PackageBuilder: package_id,
\* drive_key, roots and the quiz map are the fields __init__ and
\* set_roots_and_quizzes left; the locals of build() start afresh.
BuildAgain ==
    /\ bld.pc \in {"done", "failed"}
    /\ bld.calls < MaxBuilds
    /\ bld' = [bld EXCEPT !.pc = "new", !.calls = @ + 1, !.walk = <<>>, !.i = 0,
                          !.files_desc = <<>>, !.file_failed = FALSE, !.err = "none"]
    /\ UNCHANGED <<kw, st, medium, escrow, ld, op, tmpfs, adv, pl, stor, keyp, recd>>

\* AdminTool.build_package lines 249-250: a new PackageBuilder for the same
\* output folder and the same roots.
NewBuilder(package_id, drive_key) ==
    /\ bld.pc \in {"done", "failed"}
    /\ bld.calls < MaxBuilds
    /\ bld' = [BldNew(package_id, drive_key) EXCEPT !.instance = bld.instance + 1,
                                                   !.calls = bld.calls + 1,
                                                   !.returned = bld.returned]
    /\ UNCHANGED <<kw, st, medium, escrow, ld, op, tmpfs, adv, pl, stor, keyp, recd>>

-----------------------------------------------------------------------------
(* EpassionPlayer/core/content.py: load_package, step by step               *)

LdIdle == [pc |-> "idle", key |-> <<>>, data |-> <<>>, parsed |-> FALSE,
           manifest |-> PyNone, view |-> NoView, err |-> "none"]

LdRaise(l, e) == [l EXCEPT !.pc = "raised", !.err = e]

\* load_package lines 109-111 and _decrypt_manifest line 22: the manifest
\* must exist; its bytes are read.
LoadStart(drive_key) ==
    /\ bld.pc \in {"none", "done", "failed"}
    /\ ld.pc = "idle"
    /\ ld' = IF ~medium.manifest.exists
             THEN LdRaise([ld EXCEPT !.key = drive_key], "FileNotFoundError")
             ELSE [ld EXCEPT !.pc = "read", !.key = drive_key,
                             !.data = medium.manifest.data]
    /\ UNCHANGED <<kw, st, bld, medium, escrow, op, tmpfs, adv, pl, stor, keyp, recd>>

\* _decrypt_manifest lines 23-33. parsed records that json.loads was
\* reached, which is when aes.decrypt returned.
LoadDecrypt ==
    /\ ld.pc = "read"
    /\ LET j == decrypt_manifest(ld.data, ld.key)
           reached == Len(ld.data) >= 12 + 16 /\ ManifestPlain(ld.data, ld.key).ok
       IN  ld' = IF ~j.ok THEN LdRaise([ld EXCEPT !.parsed = reached], j.err)
                 ELSE [ld EXCEPT !.pc = "decrypted", !.parsed = reached,
                                 !.manifest = j.v]
    /\ UNCHANGED <<kw, st, bld, medium, escrow, op, tmpfs, adv, pl, stor, keyp, recd>>

\* load_package lines 113-118
LoadView ==
    /\ ld.pc = "decrypted"
    /\ ld' = IF ld.manifest.t # "dict" THEN LdRaise(ld, "ValueError")
             ELSE LET pv == PackageView(ld.manifest)
                  IN  IF ~pv.ok THEN LdRaise(ld, pv.err)
                      ELSE [ld EXCEPT !.pc = "loaded", !.view = pv.v]
    /\ UNCHANGED <<kw, st, bld, medium, escrow, op, tmpfs, adv, pl, stor, keyp, recd>>

-----------------------------------------------------------------------------
(* EpassionPlayer/core/crypto.py: decrypt_file_to_temp, step by step        *)

\* MAX_TEMP_BYTES = 8 * 1024 * 1024 * 1024, counted in KiB: the number of
\* bytes does not fit the 32-bit integers of the checker.
MAX_TEMP_KIB == 8 * 1024 * 1024

\* len(plaintext) > MAX_TEMP_BYTES
TooLarge(plaintext) ==
    \/ Len(plaintext) \div 1024 > MAX_TEMP_KIB
    \/ Len(plaintext) \div 1024 = MAX_TEMP_KIB /\ Len(plaintext) % 1024 > 0

\* lines 59-65: the extension chosen from the mime hint
TempSuffix(desc) ==
    LET m == PyOr(GetOrNone(desc, "mime"), PyStr(<<>>))
    IN  IF m.t # "str" THEN Raise("AttributeError")
        ELSE LET mime == Lower(m.v)
             IN  Ok(IF mime = S_VIDEO THEN S_MP4
                    ELSE IF mime = S_PDF THEN S_PDF_EXT
                    ELSE IF mime = S_IMAGE THEN S_PNG
                    ELSE <<>>)

OpIdle == [pc |-> "idle", entry |-> 0, desc |-> EmptyDict, key |-> <<>>,
           enc_name |-> <<>>, content_key |-> <<>>, blob |-> <<>>,
           plaintext |-> <<>>, ext |-> <<>>, tmp |-> 0, opened |-> {},
           unlink_failed |-> FALSE, err |-> "none"]

OpRaise(o, e) == [o EXCEPT !.pc = "raised", !.err = e]

\* The call on a FileEntry of the loaded package (main_window.on_item_double
\* passes entry.desc; the key is the caller's).
OpStart(i, drive_key) ==
    /\ ld.pc = "loaded"
    /\ op.pc = "idle"
    /\ i \in 1..Len(ld.view.files)
    /\ op' = [op EXCEPT !.pc = "check", !.entry = i, !.desc = ld.view.files[i].desc,
                        !.key = drive_key]
    /\ UNCHANGED <<kw, st, bld, medium, escrow, ld, tmpfs, adv, pl, stor, keyp, recd>>

\* lines 32-38: enc_name = desc["enc_name"], the path under content/ must
\* be an existing regular file. opened collects the paths the call touches,
\* as sequences of path components below secure_root.
OpCheck ==
    /\ op.pc = "check"
    /\ LET enc_name == GetOrNone(op.desc, "enc_name")
       IN  op' = IF "enc_name" \notin DOMAIN op.desc.v THEN OpRaise(op, "KeyError")
                 ELSE IF enc_name.t # "str" THEN OpRaise(op, "TypeError")
                 ELSE IF enc_name.v \notin DOMAIN medium.content
                 THEN OpRaise([op EXCEPT !.enc_name = enc_name.v,
                                         !.opened = @ \cup {enc_name.v}],
                              "FileNotFoundError")
                 ELSE [op EXCEPT !.pc = "unwrap", !.enc_name = enc_name.v,
                                 !.opened = @ \cup {enc_name.v}]
    /\ UNCHANGED <<kw, st, bld, medium, escrow, ld, tmpfs, adv, pl, stor, keyp, recd>>

\* line 40
OpUnwrap ==
    /\ op.pc = "unwrap"
    /\ LET w == GetOrNone(op.desc, "wrapped_key_b64")
           k == unwrap_content_key(op.key, w.v)
       IN  op' = IF "wrapped_key_b64" \notin DOMAIN op.desc.v THEN OpRaise(op, "KeyError")
                 ELSE IF w.t # "str" THEN OpRaise(op, "AttributeError")
                 ELSE IF ~k.ok THEN OpRaise(op, k.err)
                 ELSE [op EXCEPT !.pc = "read", !.content_key = k.v]
    /\ UNCHANGED <<kw, st, bld, medium, escrow, ld, tmpfs, adv, pl, stor, keyp, recd>>

\* lines 43-45
OpRead ==
    /\ op.pc = "read"
    /\ op' = IF op.enc_name \notin DOMAIN medium.content
             THEN OpRaise(op, "FileNotFoundError")
             ELSE LET blob == medium.content[op.enc_name]
                  IN  IF Len(blob) < 12 + 16
                      THEN OpRaise([op EXCEPT !.blob = blob], "ValueError")
                      ELSE [op EXCEPT !.pc = "decrypt", !.blob = blob]
    /\ UNCHANGED <<kw, st, bld, medium, escrow, ld, tmpfs, adv, pl, stor, keyp, recd>>

\* lines 47-65: decrypt and verify in one shot, the size limit, the suffix
OpDecrypt ==
    /\ op.pc = "decrypt"
    /\ LET aes == AESGCM_new(op.content_key)
           plaintext == AESGCM_decrypt(op.content_key, Slice(op.blob, 0, 12),
                                       Slice(op.blob, 12, Len(op.blob)))
           ext == TempSuffix(op.desc)
       IN  op' = IF ~aes.ok THEN OpRaise(op, aes.err)
                 ELSE IF ~plaintext.ok THEN OpRaise(op, plaintext.err)
                 ELSE IF TooLarge(plaintext.v) THEN OpRaise(op, "ValueError")
                 ELSE IF ~ext.ok THEN OpRaise(op, ext.err)
                 ELSE [op EXCEPT !.pc = "mkstemp", !.plaintext = plaintext.v,
                                 !.ext = ext.v]
    /\ UNCHANGED <<kw, st, bld, medium, escrow, ld, tmpfs, adv, pl, stor, keyp, recd>>

\* line 68: tempfile.mkstemp made a new, empty file
OpMkstemp ==
    /\ op.pc = "mkstemp"
    /\ tmpfs' = Append(tmpfs, [exists |-> TRUE, data |-> <<>>, suffix |-> op.ext])
    /\ op' = [op EXCEPT !.pc = "write", !.tmp = Len(tmpfs) + 1]
    /\ UNCHANGED <<kw, st, bld, medium, escrow, ld, adv, pl, stor, keyp, recd>>

\* line 68 when mkstemp raises: no file was made
OpMkstempFail ==
    /\ op.pc = "mkstemp"
    /\ op' = OpRaise(op, "OSError")
    /\ UNCHANGED <<kw, st, bld, medium, escrow, ld, tmpfs, adv, pl, stor, keyp, recd>>

\* lines 69-83 and 92: the plaintext is written and the path returned
OpWrite ==
    /\ op.pc = "write"
    /\ tmpfs' = [tmpfs EXCEPT ![op.tmp].data = op.plaintext]
    /\ op' = [op EXCEPT !.pc = "returned"]
    /\ UNCHANGED <<kw, st, bld, medium, escrow, ld, adv, pl, stor, keyp, recd>>

\* lines 77-78 when the write raises after n bytes
OpWriteFail(n) ==
    /\ op.pc = "write"
    /\ n \in 0..Len(op.plaintext)
    /\ tmpfs' = [tmpfs EXCEPT ![op.tmp].data = Slice(op.plaintext, 0, n)]
    /\ op' = [op EXCEPT !.pc = "except", !.err = "OSError"]
    /\ UNCHANGED <<kw, st, bld, medium, escrow, ld, adv, pl, stor, keyp, recd>>

\* A handler that re-raises without removing the temp file.
Unlink_skipped(fs, path) == fs

\* os.unlink(tmp_path)
Unlink(fs, path) == [fs EXCEPT ![path].exists = FALSE]

\* lines 84-90: the handler removes the temp file and re-raises
OpExcept ==
    /\ op.pc = "except"
    /\ tmpfs' = Unlink(tmpfs, op.tmp)
    /\ op' = [op EXCEPT !.pc = "raised"]
    /\ UNCHANGED <<kw, st, bld, medium, escrow, ld, adv, pl, stor, keyp, recd>>

\* lines 86-89 when os.unlink raises: the error is passed over, the
\* first exception is re-raised and the file stays.
OpExceptUnlinkFail ==
    /\ op.pc = "except"
    /\ op' = [op EXCEPT !.pc = "raised", !.unlink_failed = TRUE]
    /\ UNCHANGED <<kw, st, bld, medium, escrow, ld, tmpfs, adv, pl, stor, keyp, recd>>

-----------------------------------------------------------------------------
(* The environment of the player: what may happen to the medium             *)

AdvIdle == [manifest |-> PyNone, kek |-> <<>>, tampered |-> {}]

\* What remains of a content file after it was damaged: cut short of the
\* 28 bytes of nonce and tag, or one bit inverted in the ciphertext-and-tag
\* region (byte 13 or the last byte).
Damaged(blob, how) ==
    IF how = "truncate" THEN Slice(blob, 0, Min(27, Len(blob)))
    ELSE IF how = "flip_first" /\ Len(blob) >= 13
    THEN [blob EXCEPT ![13] = FlipBit(@, 0)]
    ELSE IF how = "flip_last" /\ Len(blob) >= 13
    THEN [blob EXCEPT ![Len(blob)] = FlipBit(@, 7)]
    ELSE blob

\* The content file the running call is about to look for is deleted or
\* damaged on the medium.
MediumTamper(how) ==
    /\ op.pc = "check"
    /\ adv.tampered = {}
    /\ LET enc_name == GetOrNone(op.desc, "enc_name")
       IN  /\ enc_name.t = "str"
           /\ enc_name.v \in DOMAIN medium.content
           /\ medium' = [medium EXCEPT !.content =
                            IF how = "delete" THEN RemoveFile(@, enc_name.v)
                            ELSE WriteFile(@, enc_name.v, Damaged(@[enc_name.v], how))]
           /\ adv' = [adv EXCEPT !.tampered = {enc_name.v}]
    /\ UNCHANGED <<kw, st, bld, escrow, ld, op, tmpfs, pl, stor, keyp, recd>>

TamperKinds == {"delete", "truncate", "flip_first", "flip_last"}

-----------------------------------------------------------------------------
(* Model of the license primitives: RSA-OAEP and Ed25519                    *)

\* How many key pairs rsa.generate_private_key can return.
NumRsaKeys == 2

\* RSA-OAEP encryption of m to public key k, as the license server does with
\* the client_rsa_pub_pem it was sent: the key's number, the masked message
\* and a check value that only the same key accepts.
rsa_encrypt_oaep(k, m) ==
    <<k>> \o Tuple([i \in 1..Len(m) |-> (m[i] + 7 * k + i) % 256])
          \o <<Hi(Digest(m)), Lo(Digest(m))>>

\* priv.decrypt(cipher_bytes, OAEP(MGF1(SHA256), SHA256, None)) with private
\* key k: ValueError ("Decryption failed") unless the text was made for k.
rsa_decrypt_oaep(k, c) ==
    IF Len(c) < 3 \/ c[1] # k THEN Raise("ValueError")
    ELSE LET n == Len(c) - 3
             m == Tuple([i \in 1..n |-> (c[i + 1] + 512 - 7 * k - i) % 256])
         IN  IF <<c[n + 2], c[n + 3]>> = <<Hi(Digest(m)), Lo(Digest(m))>>
             THEN Ok(m) ELSE Raise("ValueError")

\* PKCS8 DER of private key k, and the PEM text of its public key ("RSA" and
\* the key's digit).
PrivDer(k) == <<48, k>>
PubPem(k) == <<82, 83, 65, 48 + k>>

\* An Ed25519 signature of body under signing key k.
ed25519_sign(k, body) == <<k, Hi(Digest(body)), Lo(Digest(body))>>

\* Ed25519PublicKey.verify(sig, body) for the public key of signing key k
ed25519_verify(k, sig, body) ==
    IF sig = ed25519_sign(k, body) THEN Ok(TRUE) ELSE Raise("InvalidSignature")

\* The license server's Ed25519 public key as PEM text ("ED1").
S_ED_PEM == <<69, 68, 49>>

\* serialization.load_pem_public_key: the key's type and number; ValueError
\* for a text that is no PEM public key.
load_pem_public_key(pem) ==
    IF pem = S_ED_PEM THEN Ok([type |-> "ed25519", id |-> 1])
    ELSE IF Len(pem) = 4 /\ SubSeq(pem, 1, 3) = <<82, 83, 65>>
            /\ pem[4] - 48 \in 1..NumRsaKeys
    THEN Ok([type |-> "rsa", id |-> pem[4] - 48])
    ELSE Raise("ValueError")

-----------------------------------------------------------------------------
(* EpassionPlayer/core/secure_store.py and core/keys.py                      *)

\* "license_", "code_", "last_pkg", "client_rsa_priv_der", "client_rsa_pub_pem"
S_LICENSE_ == <<108, 105, 99, 101, 110, 115, 101, 95>>
S_CODE_ == <<99, 111, 100, 101, 95>>
S_LAST_PKG == <<108, 97, 115, 116, 95, 112, 107, 103>>
STORE_PRIV_NAME == <<99, 108, 105, 101, 110, 116, 95, 114, 115, 97, 95, 112, 114,
                     105, 118, 95, 100, 101, 114>>
STORE_PUB_NAME == <<99, 108, 105, 101, 110, 116, 95, 114, 115, 97, 95, 112, 117,
                    98, 95, 112, 101, 109>>

\* _safe_path_for(name): the characters of name that are alphanumeric or
\* one of "-_."; the store file is <that>.bin.
safe_path_for(name) == SelectSeq(name, LAMBDA c : IsAlnum(c) \/ c \in {45, 95, 46})

\* save_bytes when the write and os.replace succeed (no DPAPI off Windows:
\* the bytes are stored as they are).
save_bytes(store, name, data) == WriteFile(store, safe_path_for(name), data)

\* load_bytes: None for a missing file.
load_bytes(store, name) ==
    IF safe_path_for(name) \in DOMAIN store
    THEN [some |-> TRUE, v |-> store[safe_path_for(name)]]
    ELSE [some |-> FALSE, v |-> <<>>]

save_json(store, name, obj) == save_bytes(store, name, JsonDumps(obj))

\* json.loads inside try/except: None when it raised
JsonOrNone(j) == IF j.ok THEN j.v ELSE PyNone

\* load_json: None for a missing file and for bytes that are not JSON.
BytesJson(b) == IF ~b.some THEN PyNone ELSE JsonOrNone(JsonLoads(b.v))

load_json(store, name) == BytesJson(load_bytes(store, name))

\* load_private_key_from_store of a store whose private-key entry is never
\* found.
load_private_key_missing(store) == 0

load_private_key_from_store(store) ==
    LET b == load_bytes(store, STORE_PRIV_NAME)
    IN  IF b.some /\ Len(b.v) = 2 /\ b.v[1] = 48 /\ b.v[2] \in 1..NumRsaKeys
        THEN b.v[2] ELSE 0

\* keys.ensure_keypair: a missing private key is replaced by the new key
\* pair k; a missing public PEM is written again from the private key.
ensure_keypair(store, k) ==
    LET priv == load_private_key_from_store(store)
    IN  IF priv = 0
        THEN save_bytes(save_bytes(store, STORE_PRIV_NAME, PrivDer(k)),
                        STORE_PUB_NAME, PubPem(k))
        ELSE IF load_bytes(store, STORE_PUB_NAME).v = <<>>
        THEN save_bytes(store, STORE_PUB_NAME, PubPem(priv))
        ELSE store

\* keys.get_public_pem_text once ensure_keypair has run: the store's PEM.
get_public_pem_text(store) == load_bytes(store, STORE_PUB_NAME).v

\* keys.rsa_decrypt_oaep_sha256(cipher_bytes)
rsa_decrypt_oaep_sha256(store, cipher_bytes) ==
    LET priv == load_private_key_from_store(store)
    IN  IF priv = 0 THEN Raise("RuntimeError")
        ELSE rsa_decrypt_oaep(priv, cipher_bytes)

-----------------------------------------------------------------------------
(* Recorder debounce: MainWindow._poll_recorders_main and                    *)
(* VideoPlayerWindow._on_scanner_result                                      *)

\* The thresholds of both handlers: _rec_hits >= 2 sets, _rec_misses >= 2
\* clears.
HITS_TO_SET == 2
MISSES_TO_CLEAR == 2

\* How far the model lets a run of equal poll results count.
MaxRun == 4

\* The debounce fields of a window after __init__. History kept for the
\* properties: seen (the results of the last two polls, oldest first) and
\* flip (what the last poll did to recorder_detected).
DebounceNew == [recorder_detected |-> FALSE, hits |-> 0, misses |-> 0,
                seen |-> <<>>, flip |-> "none"]

\* The counters after a poll that found a recorder or found none.
Counted(d, found) ==
    IF found THEN [d EXCEPT !.hits = @ + 1, !.misses = 0]
    ELSE [d EXCEPT !.misses = @ + 1, !.hits = 0]

NewStateSingle(d) ==
    IF ~d.recorder_detected /\ d.hits >= 1 THEN TRUE
    ELSE IF d.recorder_detected /\ d.misses >= 1 THEN FALSE
    ELSE d.recorder_detected

\* new_state of both handlers
NewState(d) ==
    IF ~d.recorder_detected /\ d.hits >= HITS_TO_SET THEN TRUE
    ELSE IF d.recorder_detected /\ d.misses >= MISSES_TO_CLEAR THEN FALSE
    ELSE d.recorder_detected

\* One poll: the counters, then recorder_detected.
Debounced(d, found) ==
    LET c == Counted(d, found)
    IN  [c EXCEPT !.recorder_detected = NewState(c),
                  !.seen = IF Len(d.seen) < 2 THEN Append(d.seen, found)
                           ELSE <<d.seen[2], found>>,
                  !.flip = IF NewState(c) = d.recorder_detected THEN "none"
                           ELSE IF NewState(c) THEN "set" ELSE "cleared"]

RecdOff == [main |-> DebounceNew, video |-> DebounceNew]

\* A run of equal results counts up to MaxRun.
CanCount(d, found) == IF found THEN d.hits < MaxRun ELSE d.misses < MaxRun

\* MainWindow._poll_recorders_main with what _find_recorders found.
poll_recorders_main(found) ==
    /\ CanCount(recd.main, found)
    /\ recd' = [recd EXCEPT !.main = Debounced(@, found)]
    /\ UNCHANGED <<kw, st, bld, medium, escrow, ld, op, tmpfs, adv, pl, stor, keyp>>

\* VideoPlayerWindow._on_scanner_result(matches)
on_scanner_result(found) ==
    /\ CanCount(recd.video, found)
    /\ recd' = [recd EXCEPT !.video = Debounced(@, found)]
    /\ UNCHANGED <<kw, st, bld, medium, escrow, ld, op, tmpfs, adv, pl, stor, keyp>>

\* A new VideoPlayerWindow is opened: its fields start again.
VideoWindowOpened ==
    /\ recd.video # DebounceNew
    /\ recd' = [recd EXCEPT !.video = DebounceNew]
    /\ UNCHANGED <<kw, st, bld, medium, escrow, ld, op, tmpfs, adv, pl, stor, keyp>>


-----------------------------------------------------------------------------
(* The store directory under concurrent and interrupted save_bytes calls     *)

\* ".bin" and ".tmp"
S_DOT_BIN == <<46, 98, 105, 110>>
S_DOT_TMP == <<46, 116, 109, 112>>

\* p = _safe_path_for(name), and tmp = p.with_suffix(".tmp"), as file names
\* in the store directory.
BinPath(name) == safe_path_for(name) \o S_DOT_BIN
\* A save_bytes that wrote to p itself.
TmpPathInPlace(name) == safe_path_for(name) \o S_DOT_BIN

TmpPath(name) == safe_path_for(name) \o S_DOT_TMP

\* How many save_bytes calls the model runs on the name, and the name.
NumWriters == 2
Writers == 1..NumWriters
StorName == STORE_PRIV_NAME

\* The longest blob a call saves.
MaxBlobLen == NumWriters + 1

\* The bytes writer w saves, and the bytes found in the store at the start.
Blob(w) == Tuple([i \in 1..(w + 1) |-> 10 * w + i])
OldBlob == <<1, 2>>

\* write(2) of bytes at offset pos of a file holding data: the file is
\* overwritten from pos on, a gap before pos reads as zeros.
WriteAt(data, pos, bytes) ==
    Tuple([i \in 1..(IF Len(data) > pos + Len(bytes) THEN Len(data) ELSE pos + Len(bytes)) |->
             IF i > pos /\ i <= pos + Len(bytes) THEN bytes[i - pos]
             ELSE IF i <= Len(data) THEN data[i]
             ELSE 0])

\* One save_bytes call: where it stands (pc: "idle", "opened" with the
\* handle on tmp, "written" after f.write and f.flush, "synced" after
\* os.fsync, "done", "failed" when os.replace raised, "dead" when a crash
\* ended it), the file its handle is open on (h) and the handle's offset.
WriterIdle == [pc |-> "idle", h |-> 0, pos |-> 0]

\* The store directory: dir maps a file name to its file, ino a file to its
\* bytes, synced is the set of files whose bytes are on the disk. initial
\* is what load_bytes gave before any call; overlap tells that two calls
\* were under way at the same time, crashed that the machine went down.
StorOff == [dir |-> NoFiles, ino |-> <<>>, synced |-> {}, w |-> <<>>,
            initial |-> [some |-> FALSE, v |-> <<>>],
            overlap |-> FALSE, crashed |-> FALSE]

StorNew(old) ==
    IF old
    THEN [StorOff EXCEPT !.dir = WriteFile(NoFiles, BinPath(StorName), 1),
                         !.ino = <<OldBlob>>, !.synced = {1},
                         !.w = [w \in Writers |-> WriterIdle],
                         !.initial = [some |-> TRUE, v |-> OldBlob]]
    ELSE [StorOff EXCEPT !.w = [w \in Writers |-> WriterIdle]]

\* load_bytes(name) on the directory: None for a missing file.
LoadBytesAt(s, name) ==
    IF BinPath(name) \in DOMAIN s.dir
    THEN [some |-> TRUE, v |-> s.ino[s.dir[BinPath(name)]]]
    ELSE [some |-> FALSE, v |-> <<>>]

UnderWay(s) == {w \in Writers : s.w[w].pc \in {"opened", "written", "synced"}}

\* save_bytes line 71: open(tmp, "wb") makes the file or empties the one
\* that is there.
OpenedTmp(s, w) ==
    LET tmp == TmpPath(StorName)
        f == IF tmp \in DOMAIN s.dir THEN s.dir[tmp] ELSE Len(s.ino) + 1
    IN  [s EXCEPT !.dir = WriteFile(@, tmp, f),
                  !.ino = IF f > Len(@) THEN Append(@, <<>>) ELSE [@ EXCEPT ![f] = <<>>],
                  !.synced = @ \ {f},
                  !.w[w] = [pc |-> "opened", h |-> f, pos |-> 0],
                  !.overlap = @ \/ UnderWay(s) # {}]

StoreOpen(w) ==
    /\ stor.w[w].pc = "idle"
    /\ stor' = OpenedTmp(stor, w)
    /\ UNCHANGED <<kw, st, bld, medium, escrow, ld, op, tmpfs, adv, pl, keyp, recd>>

\* save_bytes lines 72-73: f.write(enc) and f.flush() hand the bytes to the
\* file in one write or more; n is the size of this one.
StoreWrite(w, n) ==
    /\ stor.w[w].pc = "opened"
    /\ n \in 1..(Len(Blob(w)) - stor.w[w].pos)
    /\ stor' = [stor EXCEPT
                  !.ino[stor.w[w].h] =
                      WriteAt(@, stor.w[w].pos,
                              SubSeq(Blob(w), stor.w[w].pos + 1, stor.w[w].pos + n)),
                  !.synced = @ \ {stor.w[w].h},
                  !.w[w].pos = @ + n,
                  !.w[w].pc = IF stor.w[w].pos + n = Len(Blob(w)) THEN "written" ELSE "opened"]
    /\ UNCHANGED <<kw, st, bld, medium, escrow, ld, op, tmpfs, adv, pl, keyp, recd>>

\* save_bytes line 74: os.fsync(f.fileno()), then the file is closed.
StoreFsync(w) ==
    /\ stor.w[w].pc = "written"
    /\ stor' = [stor EXCEPT !.synced = @ \cup {stor.w[w].h}, !.w[w].pc = "synced"]
    /\ UNCHANGED <<kw, st, bld, medium, escrow, ld, op, tmpfs, adv, pl, keyp, recd>>

\* save_bytes lines 75-80: os.replace(tmp, p) raises FileNotFoundError when
\* tmp is gone; the chmod that follows changes no bytes and its error is
\* passed over.
Replaced(s, w) ==
    LET tmp == TmpPath(StorName)
        p == BinPath(StorName)
    IN  IF tmp \notin DOMAIN s.dir THEN [s EXCEPT !.w[w].pc = "failed"]
        ELSE [s EXCEPT !.dir = [n \in ((DOMAIN s.dir) \ {tmp}) \cup {p} |->
                                   IF n = p THEN s.dir[tmp] ELSE s.dir[n]],
                       !.w[w].pc = "done"]

StoreReplace(w) ==
    /\ stor.w[w].pc = "synced"
    /\ stor' = Replaced(stor, w)
    /\ UNCHANGED <<kw, st, bld, medium, escrow, ld, op, tmpfs, adv, pl, keyp, recd>>

\* The machine goes down: the calls under way end where they are; a file
\* that was not synced keeps the first keep[f] of its bytes.
StoreCrash ==
    /\ ~stor.crashed
    /\ UnderWay(stor) # {}
    /\ \E keep \in [1..Len(stor.ino) -> 0..MaxBlobLen] :
          /\ \A f \in 1..Len(stor.ino) :
                IF f \in stor.synced THEN keep[f] = Len(stor.ino[f])
                ELSE keep[f] <= Len(stor.ino[f])
          /\ stor' = [stor EXCEPT
                        !.ino = [f \in 1..Len(stor.ino) |-> SubSeq(stor.ino[f], 1, keep[f])],
                        !.w = [w \in Writers |->
                                 IF w \in UnderWay(stor)
                                 THEN [stor.w[w] EXCEPT !.pc = "dead"] ELSE stor.w[w]],
                        !.crashed = TRUE]
    /\ UNCHANGED <<kw, st, bld, medium, escrow, ld, op, tmpfs, adv, pl, keyp, recd>>

-----------------------------------------------------------------------------
(* The device key pair across ensure_keypair calls                           *)

\* The key pair in the store across calls. History kept for the
\* properties: op (the last step: "ensure" for an ensure_keypair that
\* returned, "issue", "crashed", "damaged"), prev (the private-key entry
\* before the last call), could (the issued ciphertexts the device could
\* decrypt before the last call), issued (the ciphertexts made for the
\* public key the device sent), damaged (the private-key entry was made
\* unreadable at some time). disk is .client_keys/client_pub.pem, <<>>
\* while there is no such file.
KeypOff == [store |-> NoFiles, disk |-> <<>>, op |-> "none",
            prev |-> [some |-> FALSE, v |-> <<>>], could |-> {},
            issued |-> {}, damaged |-> FALSE]

\* The issued ciphertexts that rsa_decrypt_oaep_sha256 decrypts with the
\* store's private key.
Decryptable(store, issued) ==
    {c \in issued : rsa_decrypt_oaep_sha256(store, c).ok}

\* What a call finds before it starts.
Called(kp, how) ==
    [kp EXCEPT !.op = how,
               !.prev = load_bytes(kp.store, STORE_PRIV_NAME),
               !.could = Decryptable(kp.store, kp.issued)]

\* .client_keys/client_pub.pem after ensure_keypair: written with the new
\* PEM when a key pair was generated, and with the store's PEM when the
\* file was missing; w tells whether write_bytes could write (its error is
\* passed over).
PubOnDisk(store, disk, k, w) ==
    IF ~w THEN disk
    ELSE IF load_private_key_from_store(store) = 0 THEN PubPem(k)
    ELSE IF disk = <<>> THEN get_public_pem_text(ensure_keypair(store, k))
    ELSE disk

\* keys.ensure_keypair() from start to return; k is the key pair that
\* rsa.generate_private_key gives when it is called.
KeysEnsure(k, w) ==
    /\ keyp' = [Called(keyp, "ensure") EXCEPT
                  !.store = ensure_keypair(@, k),
                  !.disk = PubOnDisk(keyp.store, @, k, w)]
    /\ UNCHANGED <<kw, st, bld, medium, escrow, ld, op, tmpfs, adv, pl, stor, recd>>

\* keys.ensure_keypair() ended by a crash (or by a save_bytes that raised)
\* between the save of the private key (line 64) and the save of the public
\* PEM (line 70).
KeysEnsureCrashed(k) ==
    /\ load_private_key_from_store(keyp.store) = 0
    /\ keyp' = [Called(keyp, "crashed") EXCEPT
                  !.store = save_bytes(@, STORE_PRIV_NAME, PrivDer(k))]
    /\ UNCHANGED <<kw, st, bld, medium, escrow, ld, op, tmpfs, adv, pl, stor, recd>>

\* keys.get_public_pem_text() (ensure_keypair, then the store's PEM), and
\* the license server encrypting the KEK to the key of that PEM.
KeysIssue(k, w) ==
    /\ keyp' = [Called(keyp, "issue") EXCEPT
                  !.store = ensure_keypair(@, k),
                  !.disk = PubOnDisk(keyp.store, @, k, w),
                  !.issued = @ \cup
                      {rsa_encrypt_oaep(get_public_pem_text(ensure_keypair(keyp.store, k))[4] - 48,
                                        KeyBytes(1))}]
    /\ UNCHANGED <<kw, st, bld, medium, escrow, ld, op, tmpfs, adv, pl, stor, recd>>

\* The private-key entry stops being readable (load_der_private_key raises
\* on its bytes): _load_private_key_from_store gives None from then on.
KeysDamaged ==
    /\ load_private_key_from_store(keyp.store) # 0
    /\ ~keyp.damaged
    /\ keyp' = [keyp EXCEPT !.store = save_bytes(@, STORE_PRIV_NAME, <<0>>),
                            !.op = "damaged", !.damaged = TRUE]
    /\ UNCHANGED <<kw, st, bld, medium, escrow, ld, op, tmpfs, adv, pl, stor, recd>>

-----------------------------------------------------------------------------
(* The license server and what license_v2 can return                         *)

\* "ok", and the activation code the user types ("K1").
S_OK == <<111, 107>>
S_CODE_K1 == <<75, 49>>

\* bytes.fromhex of the text b.hex() gave
HexVal(c) == IF c < 58 THEN c - 48 ELSE c - 87

FromHex(h) == Tuple([i \in 1..(Len(h) \div 2) |-> 16 * HexVal(h[2 * i - 1]) + HexVal(h[2 * i])])

\* The license the server issues for package pkg_id to the device whose
\* public key has number k: the KEK encrypted to that key.
LicenseOf(pkg_id, kek, k) ==
    PyDict([package_id |-> PyStr(pkg_id),
            enc_drive_key_b64 |-> PyStr(b64e(rsa_encrypt_oaep(k, kek)))])

\* The body of a license_v2 answer with status "ok".
PayloadWith(lic, sig, pem) ==
    PyDict([status |-> PyStr(S_OK), license |-> lic,
            sig_b64 |-> PyStr(b64e(sig)), server_sign_pub_pem |-> PyStr(pem)])

\* The canonical body the signature is made over:
\* json.dumps(lic, separators=(",", ":"), sort_keys=True).encode("utf-8")
CanonicalBody(lic) == JsonDumps(lic)

\* How many answers license_v2 is given to choose from.
NumPayloads == 5

\* The other key pair of the universe.
OtherKey(k) == (k % NumRsaKeys) + 1

\* A license with the server's signature over its canonical body.
Signed(lic) == PayloadWith(lic, ed25519_sign(1, CanonicalBody(lic)), S_ED_PEM)

\* The signature sig with one byte changed.
Forged(sig) == <<sig[1], sig[2], (sig[3] + 1) % 256>>

\* The i-th answer carrying license lic:
\*   1  lic signed by the server;
\*   2  lic with a signature that does not verify;
\*   3  lic with no valid signature and, as server_sign_pub_pem, a public
\*      key that is not an Ed25519 key;
\*   4  lic without the field sig_b64.
AnswerWith(i, lic) ==
    CASE i = 1 -> Signed(lic)
      [] i = 2 -> PayloadWith(lic, Forged(ed25519_sign(1, CanonicalBody(lic))), S_ED_PEM)
      [] i = 3 -> PayloadWith(lic, <<0>>, PubPem(1))
      [] OTHER -> PyDict([status |-> PyStr(S_OK), license |-> lic,
                          server_sign_pub_pem |-> PyStr(S_ED_PEM)])

\* The i-th answer for package pkg_id with KEK kek, asked by the device with
\* key k: 1 to 4 carry the server's license for this device; 5 is the
\* server's signed license for another device's key.
PayloadOf(i, pkg_id, kek, k) ==
    IF i = 5 THEN Signed(LicenseOf(pkg_id, kek, OtherKey(k)))
    ELSE AnswerWith(i, LicenseOf(pkg_id, kek, k))

-----------------------------------------------------------------------------
(* EpassionPlayer/ui/main_window.py: MainWindow. The handlers are modelled   *)
(* with no screen recorder detected: while one is, every widget is disabled  *)
(* and each handler returns at its first test.                               *)

\* str(self.secure_root): "E:/SecureContent"
S_SECURE_ROOT == <<69, 58, 47, 83, 101, 99, 117, 114, 101, 67, 111, 110, 116, 101, 110, 116>>

\* The player not running, on a device that never ran it, and a license
\* server that was sent no package. Fields of MainWindow: secure_root (is a
\* root chosen), drive_key (<<>> for None), package (is a PackageView held),
\* btn_activate (is the Activate button enabled). store is the device's
\* secure store and server the packages imported to the license server.
\* History kept for the properties. Of the last on_activate of this
\* run: report (how
\* it ended: "error" for a message box and return, "sig_invalid",
\* "exception" for an exception leaving the handler, "success" for
\* "Activated & license saved."), checked (how its _verify_sig ended:
\* "verified" when pub.verify returned, "skipped" when the method returned
\* without calling it, "raised"), wrote (it wrote the payload to the medium
\* or the store), lost (its write of license_<pkg> to the store failed).
\* Of all runs: activated (an on_activate reported success with the
\* server's license for this device), verified (the payloads on which
\* pub.verify returned). Of this run: key_from (the payload the held
\* drive_key was decrypted from), last_load (how the last _load_content
\* ended), pkg_key (the key the held package was decrypted with).
\* temp_paths is the list MainWindow.temp_paths, as positions in tmpfs.
\* Of the last on_activate also: asked (it called license_v2) and act_ok
\* (its activate_v2 returned ok). Of all runs also: killed (a run ended
\* without closeEvent) and undeleted (a safe_delete left its file).
PlOff == [running |-> FALSE, secure_root |-> FALSE, drive_key |-> <<>>,
          package |-> FALSE, btn_activate |-> TRUE,
          store |-> NoFiles, server |-> {},
          report |-> "none", checked |-> "none", wrote |-> FALSE, lost |-> FALSE,
          activated |-> FALSE, verified |-> {},
          key_from |-> <<>>, last_load |-> "none", pkg_key |-> <<>>,
          temp_paths |-> <<>>, asked |-> FALSE, act_ok |-> FALSE,
          killed |-> FALSE, undeleted |-> FALSE]

\* device.read_package_id_from_usb: None when package_id.txt is missing.
read_package_id_from_usb(m) ==
    IF m.pkgid.exists THEN [some |-> TRUE, v |-> Strip(m.pkgid.data)]
    ELSE [some |-> FALSE, v |-> <<>>]

\* v[k] on a Python value
Subscript(v, k) ==
    IF v.t # "dict" THEN Raise("TypeError")
    ELSE IF k \in DOMAIN v.v THEN Ok(v.v[k])
    ELSE Raise("KeyError")

\* isinstance(data, dict) and "license" in data
\*     and "enc_drive_key_b64" in data["license"]
\* for the licenses of this model, which are dicts whenever present.
HasLicenseKey(data) ==
    /\ data.t = "dict"
    /\ "license" \in DOMAIN data.v
    /\ data.v.license.t = "dict"
    /\ "enc_drive_key_b64" \in DOMAIN data.v.license.v

\* The license_response.json of the medium through json.loads; None when
\* the file is missing or is not JSON.
LicenseFileJson(m) ==
    IF ~m.license.exists THEN PyNone ELSE JsonOrNone(JsonLoads(m.license.data))

is_activated_for_current_root(p, m) ==
    LET id == read_package_id_from_usb(m)
    IN  /\ p.secure_root
        /\ id.some /\ id.v # <<>>
        /\ \/ HasLicenseKey(LicenseFileJson(m))
           \/ LET payload == load_json(p.store, S_LICENSE_ \o id.v)
              IN  Truthy(payload) /\ HasLicenseKey(payload)

\* _verify_sig lines 624-626 with the license, the decoded signature and
\* the key load_pem_public_key gave.
VerifyWith(lic, sig, pub) ==
    IF ~pub.ok THEN pub
    ELSE IF pub.v.type = "ed25519"
    THEN ed25519_verify(pub.v.id, sig, CanonicalBody(lic))
    ELSE Ok(FALSE)

\* _verify_sig lines 622-624 with the values of the three fields.
VerifyFields(lic, s, pem, sig) ==
    IF ~sig.ok THEN sig
    ELSE IF ~pem.ok THEN pem
    ELSE IF pem.v.t # "str" THEN Raise("AttributeError")
    ELSE VerifyWith(lic, sig.v, load_pem_public_key(pem.v.v))

VerifySubscripts(lic, s, pem) ==
    IF ~lic.ok THEN lic
    ELSE IF ~s.ok THEN s
    ELSE IF s.v.t # "str" THEN Raise("TypeError")
    ELSE VerifyFields(lic.v, s, pem, b64decode(s.v.v))

\* _verify_sig(payload): Ok(TRUE) when pub.verify returned, Ok(FALSE) when
\* the method returned without calling it, the exception otherwise.
verify_sig(payload) ==
    VerifySubscripts(Subscript(payload, "license"), Subscript(payload, "sig_b64"),
                     Subscript(payload, "server_sign_pub_pem"))

KeyResult(key, from) == [ok |-> TRUE, v |-> key, err |-> "none", from |-> from]

KeyRaise(e) == [ok |-> FALSE, v |-> <<>>, err |-> e, from |-> <<>>]

\* The steps of _load_drive_key after the payload is chosen, each on the
\* value the step before produced: rsa_decrypt_oaep_sha256 on the decoded
\* text, base64.b64decode of the field, payload["license"]
\* ["enc_drive_key_b64"]; text is the payload as JSON.
KeyFromPlain(k, text) ==
    IF ~k.ok THEN KeyRaise(k.err) ELSE KeyResult(k.v, text)

KeyFromCipher(store, enc, text) ==
    IF ~enc.ok THEN KeyRaise(enc.err)
    ELSE KeyFromPlain(rsa_decrypt_oaep_sha256(store, enc.v), text)

KeyFromField(store, e, text) ==
    IF ~e.ok THEN KeyRaise(e.err)
    ELSE IF e.v.t # "str" THEN KeyRaise("TypeError")
    ELSE KeyFromCipher(store, b64decode(e.v.v), text)

KeyFromLicense(store, lic, text) ==
    IF ~lic.ok THEN KeyRaise(lic.err)
    ELSE KeyFromField(store, Subscript(lic.v, "enc_drive_key_b64"), text)

KeyFromPayload(store, payload) ==
    IF payload.t = "none" THEN KeyResult(<<>>, <<>>)
    ELSE KeyFromLicense(store, Subscript(payload, "license"), JsonDumps(payload))

\* _load_drive_key lines 636-644: the license file of the medium when it is
\* JSON and not null, the store's license_<pkg> otherwise.
PayloadFor(store, filed, id) ==
    IF filed.t # "none" THEN filed ELSE load_json(store, S_LICENSE_ \o id)

LoadKeyFor(p, m, id) ==
    IF ~p.secure_root \/ ~id.some \/ id.v = <<>> THEN KeyResult(<<>>, <<>>)
    ELSE KeyFromPayload(p.store, PayloadFor(p.store, LicenseFileJson(m), id.v))

\* _load_drive_key: no signature is looked at.
load_drive_key(p, m) == LoadKeyFor(p, m, read_package_id_from_usb(m))

\* load_package lines 113-118 on what _decrypt_manifest gave
ViewOf(j) ==
    IF ~j.ok THEN j
    ELSE IF j.v.t # "dict" THEN Raise("ValueError")
    ELSE PackageView(j.v)

\* content.load_package(secure_root, drive_key) as one call
load_package(m, drive_key) ==
    IF ~m.manifest.exists THEN Raise("FileNotFoundError")
    ELSE ViewOf(decrypt_manifest(m.manifest.data, drive_key))

\* _load_content lines 682-706 with the key r that was loaded and what
\* load_package gave for it.
ContentLoaded(p, r, pk) ==
    [p EXCEPT !.drive_key = r.v, !.key_from = r.from, !.package = pk.ok,
              !.pkg_key = IF pk.ok THEN r.v ELSE <<>>,
              !.last_load = IF pk.ok THEN "loaded" ELSE "load_failed"]

\* _load_content lines 666-680 on what _load_drive_key gave
ContentWithKey(p, m, r) ==
    IF ~r.ok
    THEN [p EXCEPT !.drive_key = <<>>, !.key_from = <<>>, !.last_load = "license_error"]
    ELSE IF r.v = <<>>
    THEN [p EXCEPT !.drive_key = <<>>, !.key_from = <<>>, !.last_load = "no_license"]
    ELSE ContentLoaded(p, r, load_package(m, r.v))

\* _load_content: the window after the call.
load_content(p, m) ==
    IF ~p.secure_root THEN p ELSE ContentWithKey(p, m, load_drive_key(p, m))

\* _load_content reads the medium and the store and writes neither, so a
\* second call right after the first ends as the first did. Where a handler
\* calls _refresh_activation_ui and _load_content in a row on an activated
\* root, the model evaluates the load once.
\*
\* _refresh_activation_ui with activated already computed: the Activate
\* button is enabled when the root is not activated; hiding the toolbar of
\* an activated root runs _auto_load_if_activated. With always, a call of
\* _load_content follows.
RefreshWith(p, m, activated, always) ==
    IF activated \/ always
    THEN load_content([p EXCEPT !.btn_activate = ~activated], m)
    ELSE [p EXCEPT !.btn_activate = ~activated]

\* _refresh_activation_ui, also when followed by
\* "if self._is_activated_for_current_root(): self._load_content(...)"
refresh_activation_ui(p, m) ==
    RefreshWith(p, m, is_activated_for_current_root(p, m), FALSE)

\* _refresh_activation_ui followed by _load_content
refresh_then_load(p, m) ==
    RefreshWith(p, m, is_activated_for_current_root(p, m), TRUE)

\* _load_content followed by _refresh_activation_ui
load_then_refresh(p, m) ==
    [load_content(p, m) EXCEPT !.btn_activate = ~is_activated_for_current_root(p, m)]

\* The files of fs after safe_delete on each path of temp_paths; the paths
\* in keep are those whose file could not be removed (the error is passed
\* over).
safe_delete_all(fs, temp_paths, keep) ==
    [i \in 1..Len(fs) |->
       IF (\E j \in 1..Len(temp_paths) : temp_paths[j] = i) /\ i \notin keep
       THEN [fs[i] EXCEPT !.exists = FALSE] ELSE fs[i]]

\* Some file of temp_paths is still there after safe_delete.
LeftBehind(fs, temp_paths, keep) ==
    \E j \in 1..Len(temp_paths) : temp_paths[j] \in keep /\ fs[temp_paths[j]].exists

\* _reset_package_state_for_new_root: the window; the temp files are
\* deleted by the action that calls it.
reset_package_state_for_new_root(p) ==
    [p EXCEPT !.drive_key = <<>>, !.key_from = <<>>, !.package = FALSE,
              !.pkg_key = <<>>, !.temp_paths = <<>>,
              !.secure_root = TRUE]

\* _save_last_session when the store takes the write (w) or not.
save_last_session(p, m, w) ==
    LET id == read_package_id_from_usb(m)
    IN  IF ~p.secure_root \/ ~w THEN p
        ELSE [p EXCEPT !.store = save_json(@, S_LAST_PKG,
                           PyDict([pkg_id |-> PyStr(IF id.some THEN id.v ELSE <<>>),
                                   folder |-> PyStr(S_SECURE_ROOT)]))]

\* __init__ from _restore_last_session on, with the fields set (p0) and
\* last_pkg read from the store.
RestoreSession(p0, m, last) ==
    IF Truthy(last) /\ last.t = "dict" /\ m.manifest.exists
    THEN refresh_activation_ui(reset_package_state_for_new_root(p0), m)
    ELSE refresh_activation_ui(p0, m)

\* The window as __init__ sets its fields, after ensure_keypair.
Started(p, k) ==
    [p EXCEPT !.running = TRUE, !.store = ensure_keypair(@, k),
              !.secure_root = FALSE, !.drive_key = <<>>, !.key_from = <<>>,
              !.package = FALSE, !.pkg_key = <<>>, !.temp_paths = <<>>,
              !.last_load = "none"]

\* MainWindow.__init__: ensure_keypair (k is the key pair generated when the
\* store holds none), the fields set, _restore_last_session, the last
\* _refresh_activation_ui.
PlayerStart(k) ==
    /\ bld.pc = "done"
    /\ ~pl.running
    /\ pl' = RestoreSession(Started(pl, k), medium,
                            load_json(ensure_keypair(pl.store, k), S_LAST_PKG))
    /\ UNCHANGED <<kw, st, bld, medium, escrow, ld, op, tmpfs, adv, stor, keyp, recd>>

\* The window when the process has ended.
Gone(p) ==
    [p EXCEPT !.running = FALSE, !.secure_root = FALSE, !.drive_key = <<>>,
              !.key_from = <<>>, !.package = FALSE, !.btn_activate = TRUE,
              !.pkg_key = <<>>, !.temp_paths = <<>>,
              !.last_load = "none", !.report = "none", !.checked = "none",
              !.wrote = FALSE, !.lost = FALSE, !.asked = FALSE, !.act_ok = FALSE]

\* The window is closed: closeEvent runs safe_delete on every path of
\* temp_paths.
PlayerQuit(keep) ==
    /\ pl.running
    /\ keep \subseteq {pl.temp_paths[j] : j \in 1..Len(pl.temp_paths)}
    /\ tmpfs' = safe_delete_all(tmpfs, pl.temp_paths, keep)
    /\ pl' = [Gone(pl) EXCEPT !.undeleted = @ \/ LeftBehind(tmpfs, pl.temp_paths, keep)]
    /\ UNCHANGED <<kw, st, bld, medium, escrow, ld, op, adv, stor, keyp, recd>>

\* The process ends without closeEvent (it is killed, it crashes, the
\* machine goes down): nothing is deleted.
PlayerKill ==
    /\ pl.running
    /\ pl' = [Gone(pl) EXCEPT !.killed = TRUE]
    /\ UNCHANGED <<kw, st, bld, medium, escrow, ld, op, tmpfs, adv, stor, keyp, recd>>

\* on_choose with the folder of the medium picked; the store takes the
\* write of last_pkg.
on_choose(keep) ==
    /\ pl.running
    /\ medium.manifest.exists
    /\ keep \subseteq {pl.temp_paths[j] : j \in 1..Len(pl.temp_paths)}
    /\ tmpfs' = safe_delete_all(tmpfs, pl.temp_paths, keep)
    /\ pl' = refresh_activation_ui(
                 save_last_session(
                     reset_package_state_for_new_root(
                         [pl EXCEPT !.undeleted = @ \/ LeftBehind(tmpfs, pl.temp_paths, keep)]),
                     medium, TRUE),
                 medium)
    /\ UNCHANGED <<kw, st, bld, medium, escrow, ld, op, adv, stor, keyp, recd>>

\* How many temp files the model lets the player make, and the entries of
\* the tree it opens.
MaxOpens == 2
MaxOpenEntry == 2

\* decrypt_file_to_temp(secure_root, desc, drive_key) as one call, up to
\* mkstemp: the plaintext and the suffix of the temp file, or the error.
TempPlain(desc, blob, k) ==
    LET plaintext == AESGCM_decrypt(k, Slice(blob, 0, 12), Slice(blob, 12, Len(blob)))
        ext == TempSuffix(desc)
    IN  IF ~AESGCM_new(k).ok THEN AESGCM_new(k)
        ELSE IF ~plaintext.ok THEN plaintext
        ELSE IF TooLarge(plaintext.v) THEN Raise("ValueError")
        ELSE IF ~ext.ok THEN ext
        ELSE Ok([data |-> plaintext.v, suffix |-> ext.v])

TempRead(m, desc, enc_name, k) ==
    IF ~k.ok THEN k
    ELSE IF Len(m.content[enc_name]) < 12 + 16 THEN Raise("ValueError")
    ELSE TempPlain(desc, m.content[enc_name], k.v)

TempOf(m, desc, drive_key) ==
    LET enc_name == GetOrNone(desc, "enc_name")
        w == GetOrNone(desc, "wrapped_key_b64")
    IN  IF "enc_name" \notin DOMAIN desc.v THEN Raise("KeyError")
        ELSE IF enc_name.t # "str" THEN Raise("TypeError")
        ELSE IF enc_name.v \notin DOMAIN m.content THEN Raise("FileNotFoundError")
        ELSE IF "wrapped_key_b64" \notin DOMAIN desc.v THEN Raise("KeyError")
        ELSE IF w.t # "str" THEN Raise("AttributeError")
        ELSE TempRead(m, desc, enc_name.v, unwrap_content_key(drive_key, w.v))

\* The entries of the package the window holds.
HeldFiles(p, m) ==
    IF p.package THEN load_package(m, p.pkg_key).v.files ELSE <<>>

\* on_item_double on entry i of the tree. made tells whether mkstemp and
\* the write of the temp file went through; the file is opened in a viewer
\* and its path appended to temp_paths.
on_item_double(i, made) ==
    /\ pl.running
    /\ pl.package
    /\ pl.drive_key # <<>>
    /\ Len(tmpfs) < MaxOpens
    /\ i \in 1..Len(HeldFiles(pl, medium))
    /\ LET t == TempOf(medium, HeldFiles(pl, medium)[i].desc, pl.drive_key)
       IN  IF t.ok /\ made
           THEN /\ tmpfs' = Append(tmpfs, [exists |-> TRUE, data |-> t.v.data,
                                            suffix |-> t.v.suffix])
                /\ pl' = [pl EXCEPT !.temp_paths = Append(@, Len(tmpfs) + 1)]
           ELSE UNCHANGED <<tmpfs, pl>>
    /\ UNCHANGED <<kw, st, bld, medium, escrow, ld, op, adv, stor, keyp, recd>>

on_load ==
    /\ pl.running
    /\ pl' = load_then_refresh(pl, medium)
    /\ UNCHANGED <<kw, st, bld, medium, escrow, ld, op, tmpfs, adv, stor, keyp, recd>>

\* How on_activate ends: the window and the medium after it.
Ended(p, m, how) == [p |-> [p EXCEPT !.report = how], m |-> m]

\* The KEK the license server holds for package id (imported by
\* upload_to_server), <<>> when it holds none.
ServerKek(server, id) ==
    LET recs == {s \in server : s.package_id = id}
    IN  IF recs = {} THEN <<>>
        ELSE FromHex((CHOOSE s \in recs : TRUE).drive_key_hex)

\* on_activate lines 602-615 after _verify_sig returned (verified: it had
\* called pub.verify); text is the payload as JSON.
Persist(p, m, id, code, payload, text, verified, genuine, w_medium, w_store) ==
    [p |-> refresh_then_load(
               save_last_session(
                   [p EXCEPT !.store = IF w_store
                                       THEN save_json(save_json(@, S_LICENSE_ \o id, payload),
                                                      S_CODE_ \o id,
                                                      PyDict([code |-> PyStr(code)]))
                                       ELSE @,
                             !.verified = IF verified THEN @ \cup {text} ELSE @,
                             !.checked = IF verified THEN "verified" ELSE "skipped",
                             !.wrote = w_medium \/ w_store,
                             !.lost = ~w_store,
                             !.activated = @ \/ genuine,
                             !.report = "success"],
                   m, w_store),
               IF w_medium THEN [m EXCEPT !.license = File(text)] ELSE m),
     m |-> IF w_medium THEN [m EXCEPT !.license = File(text)] ELSE m]

\* on_activate lines 597-600 on what _verify_sig gave (v).
ActivateChecked(p, m, id, code, payload, v, genuine, w_medium, w_store) ==
    IF ~v.ok
    THEN Ended([p EXCEPT !.checked = "raised"], m,
               IF v.err = "InvalidSignature" THEN "sig_invalid" ELSE "exception")
    ELSE Persist(p, m, id, code, payload, JsonDumps(payload), v.v, genuine,
                 w_medium, w_store)

\* on_activate lines 597-615, for the payload license_v2 returned; id is the
\* package id read from the medium. w_medium: save_license_response could
\* write license_response.json; w_store: the secure store takes the writes
\* of this call (license_<pkg>, code_<pkg>, last_pkg).
ActivateWith(p, m, id, code, payload, genuine, w_medium, w_store) ==
    ActivateChecked(p, m, id, code, payload, verify_sig(payload), genuine,
                    w_medium, w_store)

\* on_activate lines 576-596 with the package id and the public key read.
ActivateFrom(p0, m, id, pem, kek, code, act, lic, w_medium, w_store) ==
    IF \/ ~p0.secure_root
       \/ Strip(code) = <<>>
       \/ ~id.some \/ id.v = <<>>
       \/ pem = <<>>
       \/ act = "refused"
    THEN Ended(p0, m, "error")
    ELSE IF lic = 0
    THEN Ended([p0 EXCEPT !.asked = TRUE, !.act_ok = (act = "bound")], m, "error")
    ELSE ActivateWith([p0 EXCEPT !.asked = TRUE, !.act_ok = (act = "bound")],
                      m, id.v, Strip(code),
                      PayloadOf(lic, id.v, kek, pem[4] - 48), lic = 1,
                      w_medium, w_store)

\* The window and the medium become what the handler left.
Becomes(r) == pl' = r.p /\ medium' = r.m

\* on_activate. code: the text of the code field; act: what activate_v2
\* answered ("bound", an error naming the code as already bound, another
\* error); lic: which answer license_v2 gave, 0 for a failure, an answer
\* with a license only from a server that holds the package. An input the
\* handler does not come to use is held at one value.
on_activate(code, act, lic, w_medium, w_store) ==
    /\ pl.running
    /\ pl.btn_activate
    /\ Strip(code) = <<>> => act = "refused"
    /\ act = "refused" => lic = 0
    /\ lic = 0 => w_medium /\ w_store
    /\ lic = 0 \/ pl.server # {}
    /\ Becomes(ActivateFrom([pl EXCEPT !.lost = FALSE, !.wrote = FALSE, !.checked = "none",
                                        !.asked = FALSE, !.act_ok = FALSE],
                            medium, read_package_id_from_usb(medium),
                            get_public_pem_text(pl.store),
                            ServerKek(pl.server, read_package_id_from_usb(medium).v),
                            code, act, lic, w_medium, w_store))
    /\ UNCHANGED <<kw, st, bld, escrow, ld, op, tmpfs, adv, stor, keyp, recd>>

upload_to_server ==
    /\ bld.pc = "done"
    /\ DOMAIN pl.store = {}
    /\ pl.server = {}
    /\ pl' = [pl EXCEPT !.server = @ \cup {[package_id |-> bld.package_id,
                                            drive_id |-> bld.drive_id,
                                            drive_key_hex |-> Hex(bld.drive_key)]}]
    /\ UNCHANGED <<kw, st, bld, medium, escrow, ld, op, tmpfs, adv, stor, keyp, recd>>

\* How many ways the model has of putting a license_response.json on the
\* medium from outside this player.
NumMediumWrites == 4

\* The medium with a license_response.json this player did not write:
\*   1  the player of another device activated the package with it;
\*   2  a license for this device's public key that the server never signed;
\*   3  a file holding the JSON text [];
\*   4  a file that is not JSON.
LicenseFromOutside(m, i, k) ==
    LET text == CASE i = 1 -> JsonDumps(PayloadOf(1, bld.package_id, bld.drive_key,
                                                  OtherKey(k)))
                  [] i = 2 -> JsonDumps(PayloadOf(2, bld.package_id, bld.drive_key, k))
                  [] i = 3 -> JsonDumps(PyList(<<>>))
                  [] OTHER -> <<123>>
    IN  [m EXCEPT !.license = File(text)]

\* Environment: the medium, between two uses on this device, comes back
\* with a license_response.json this player did not write.
MediumLicenseWritten(i) ==
    /\ bld.pc = "done"
    /\ ~pl.running
    /\ load_private_key_from_store(pl.store) # 0
    /\ medium' = LicenseFromOutside(medium, i, load_private_key_from_store(pl.store))
    /\ UNCHANGED <<kw, st, bld, escrow, ld, op, tmpfs, adv, pl, stor, keyp, recd>>

\* Environment: the medium is removable and writable, and the same happens
\* to the file of a package whose content the window shows.
MediumLicenseReplaced(i) ==
    /\ pl.running
    /\ pl.package
    /\ medium' = LicenseFromOutside(medium, i, load_private_key_from_store(pl.store))
    /\ UNCHANGED <<kw, st, bld, escrow, ld, op, tmpfs, adv, pl, stor, keyp, recd>>

\* What the user types into the code field.
Codes == {<<>>, S_CODE_K1}

ActivateAnswers == {"bound", "already_bound", "refused"}

PlayerInit ==
    /\ \E id \in Uuids, d \in ModuleDirs :
          bld = [BldNew(id, KeyBytes(1)) EXCEPT !.module_dir = d]
    /\ medium = EmptyMedium
    /\ escrow = {}
    /\ pl = PlOff
    /\ stor = StorOff
    /\ keyp = KeypOff
    /\ recd = RecdOff
    /\ ld = LdIdle
    /\ op = OpIdle
    /\ tmpfs = <<>>
    /\ adv = AdvIdle
    /\ kw = KwIdle
    /\ st = StIdle

PlayerNext ==
    \/ BuildStart
    \/ BuildFile(random_name(TokenBytes(bld.i, 6), TokenBytes(bld.i, 2)),
                 KeyBytes(1), NonceBytes(1))
    \/ BuildManifest(NonceBytes(1))
    \/ BuildPackageId
    \/ BuildExport
    \/ upload_to_server
    \/ PlayerStart(1)
    \/ \E keep \in SUBSET (1..MaxOpens) : PlayerQuit(keep)
    \/ \E keep \in SUBSET (1..MaxOpens) : on_choose(keep)
    \/ on_load
    \/ \E code \in Codes, act \in ActivateAnswers, lic \in 0..NumPayloads,
          w_medium \in BOOLEAN, w_store \in BOOLEAN :
          on_activate(code, act, lic, w_medium, w_store)
    \/ \E i \in 1..NumMediumWrites : MediumLicenseWritten(i)

\* Building a package, importing it to the server, and the player on one
\* device: start, choose, activate, load, quit.
SpecPlayer == PlayerInit /\ [][PlayerNext]_vars

-----------------------------------------------------------------------------
(* Builder and player together                                              *)

PkgInit ==
    /\ \E id \in Uuids, k \in Keys : bld = BldNew(id, k)
    /\ medium = EmptyMedium
    /\ escrow = {}
    /\ pl = PlOff
    /\ stor = StorOff
    /\ keyp = KeypOff
    /\ recd = RecdOff
    /\ ld = LdIdle
    /\ op = OpIdle
    /\ tmpfs = <<>>
    /\ adv = AdvIdle
    /\ kw = KwIdle
    /\ st = StIdle

PkgNext ==
    \/ BuildStart
    \/ \E n \in RandomNames, k \in Keys, nonce \in Nonces : BuildFile(n, k, nonce)
    \/ \E n \in RandomNames, nonce \in Nonces, started \in BOOLEAN :
           BuildFileFail(n, nonce, started)
    \/ \E nonce \in Nonces : BuildManifest(nonce)
    \/ \E created \in BOOLEAN : BuildManifestFail(created)
    \/ BuildPackageId
    \/ BuildPackageIdFail
    \/ BuildExport
    \/ BuildExportFail
    \/ \E k \in Keys : LoadStart(k)
    \/ LoadDecrypt
    \/ LoadView
    \/ \E i \in 1..Len(ld.view.files), k \in Keys : OpStart(i, k)
    \/ OpCheck
    \/ OpUnwrap
    \/ OpRead
    \/ OpDecrypt
    \/ OpMkstemp
    \/ OpMkstempFail
    \/ OpWrite
    \/ \E n \in 0..Len(op.plaintext) : OpWriteFail(n)
    \/ OpExcept
    \/ OpExceptUnlinkFail
    \/ \E how \in TamperKinds : MediumTamper(how)

-----
(* Manifests written by someone who holds the KEK                           *)

\* The one well-formed content file of the adversary's medium and its
\* descriptor: "ok.bin"
S_OK_BIN == <<111, 107, 46, 98, 105, 110>>

GoodEnc == encrypt_file_aesgcm(<<7, 7>>, KeyBytes(1), NonceBytes(1))

GoodDesc(kek) == Describe(kek, S_OK_BIN, GoodEnc.ret, S_VIDEO).v

GoodEntry(kek) ==
    PyDict([root_index |-> PyInt(0), root_name |-> PyStr(<<65>>),
            relpath |-> PyStr(S_REL_VIDEO), kind |-> PyStr(S_VIDEO),
            desc |-> GoodDesc(kek)])

\* The entry g with another desc, with another value of one field of its
\* desc, or with one field of its desc missing.
WithDesc(g, d) == PyDict([g.v EXCEPT !.desc = d])

WithField(g, k, x) ==
    WithDesc(g, PyDict([f \in DOMAIN g.v.desc.v |-> IF f = k THEN x ELSE g.v.desc.v[f]]))

Without(g, k) ==
    WithDesc(g, PyDict([f \in (DOMAIN g.v.desc.v) \ {k} |-> g.v.desc.v[f]]))

\* The elements a files list is made of, g being the good entry.
AdvElems(g) ==
    << g,
       WithField(g, "enc_name", PyStr(<<46, 46>>)),                    \* ".."
       WithField(g, "enc_name", PyStr(<<46, 46, 47, 120>>)),           \* "../x"
       WithField(g, "enc_name", PyStr(<<97, 47, 98>>)),                \* "a/b"
       WithField(g, "enc_name", PyStr(<<97, 92, 98>>)),                \* "a\b"
       WithField(g, "enc_name", PyStr(<<97, 46, 46, 98>>)),            \* "a..b"
       WithField(g, "enc_name", PyStr(<<>>)),
       WithField(g, "enc_name", PyStr(Repeat(97, MAX_FILENAME_LEN + 1))),
       WithField(g, "enc_name", PyStr(<<46>>)),                        \* "."
       WithField(g, "enc_name", PyNone),
       WithField(g, "enc_name", PyInt(5)),
       Without(g, "enc_name"),
       Without(g, "nonce_b64"),
       Without(g, "tag_b64"),
       Without(g, "wrapped_key_b64"),
       WithField(g, "nonce_b64", PyStr(<<>>)),
       WithField(g, "mime", PyStr(Repeat(109, MAX_STR_LEN + 1))),
       PyInt(7),
       PyList(<<>>),
       WithDesc(g, PyStr(<<120>>)),
       WithDesc(g, PyNone),
       PyDict([g.v EXCEPT !.root_index = PyStr(<<120>>)]),
       PyDict([g.v EXCEPT !.relpath = PyStr(Repeat(114, MAX_STR_LEN + 1))]) >>

\* The longest files list drawn from AdvElems.
MaxAdvFiles == 2

GoodRoot == PyDict([index |-> PyInt(0), name |-> PyStr(<<65>>), path_hint |-> PyStr(<<65>>)])

\* A manifest with the header build() writes and the given roots and files.
AdvManifest(roots, files) ==
    PyDict([version |-> PyInt(4), package_id |-> PyStr(<<112, 49>>),
            drive_id |-> PyStr(S_USB1), roots |-> roots, files |-> files])

\* Manifests whose header or roots are off, each with the one good file g.
AdvHeaders(g) ==
    LET good == PyList(<<g>>)
        one  == PyList(<<GoodRoot>>)
        m    == AdvManifest(one, good).v
    IN  << AdvManifest(PyList([i \in 1..MAX_ROOTS |-> GoodRoot]), good),
           AdvManifest(PyList([i \in 1..(MAX_ROOTS + 1) |-> GoodRoot]), good),
           AdvManifest(PyInt(3), good),
           AdvManifest(PyList(<<PyInt(3)>>), good),
           AdvManifest(PyList(<<PyDict([GoodRoot.v EXCEPT !.index = PyStr(<<120>>)])>>), good),
           AdvManifest(PyList(<<PyDict([GoodRoot.v EXCEPT
                           !.name = PyStr(Repeat(110, MAX_STR_LEN + 1))])>>), good),
           AdvManifest(PyList(<<PyDict([GoodRoot.v EXCEPT
                           !.path_hint = PyStr(Repeat(104, MAX_STR_LEN + 1))])>>), good),
           AdvManifest(one, PyInt(3)),
           AdvManifest(one, PyList([i \in 1..(MAX_FILES + 1) |-> PyInt(0)])),
           PyDict([m EXCEPT !.package_id = PyStr(Repeat(112, MAX_STR_LEN + 1))]),
           PyDict([m EXCEPT !.package_id = PyInt(9)]),
           PyDict([m EXCEPT !.drive_id = PyStr(Repeat(100, MAX_STR_LEN + 1))]),
           good >>

\* The i-th manifest tried for i > 0: AdvHeaders(g)[i]; for i = 0 the good
\* header with the files list picked from AdvElems by the indices idx.
AdvPick(g, i, idx) ==
    IF i > 0 THEN AdvHeaders(g)[i]
    ELSE LET elems == AdvElems(g)
         IN  AdvManifest(PyList(<<GoodRoot>>),
                         PyList([k \in 1..Len(idx) |-> elems[idx[k]]]))

\* The files lists tried: every list of at most MaxAdvFiles elements of
\* AdvElems, as lists of indices.
AdvIndexLists(g) == UNION {[1..n -> 1..Len(AdvElems(g))] : n \in 0..MaxAdvFiles}

ManifestInit ==
    /\ \E kek \in Keys :
          LET g == GoodEntry(kek)
          IN  \E i \in 0..Len(AdvHeaders(g)) :
              \E idx \in (IF i = 0 THEN AdvIndexLists(g) ELSE {<<>>}) :
                 LET m == AdvPick(g, i, idx)
                 IN  /\ adv = [manifest |-> m, kek |-> kek, tampered |-> {}]
                     /\ medium = [manifest |-> File(encrypt_bytes_aesgcm(
                                                  kek, NonceBytes(1), JsonDumps(m))),
                                  pkgid |-> NoFile, license |-> NoFile,
                                  content |-> WriteFile(NoFiles, S_OK_BIN, GoodEnc.dst)]
    /\ bld = BldIdle
    /\ escrow = {}
    /\ pl = PlOff
    /\ stor = StorOff
    /\ keyp = KeypOff
    /\ recd = RecdOff
    /\ ld = LdIdle
    /\ op = OpIdle
    /\ tmpfs = <<>>
    /\ kw = KwIdle
    /\ st = StIdle

ManifestNext ==
    \/ \E k \in Keys : LoadStart(k)
    \/ LoadDecrypt
    \/ LoadView
    \/ \E i \in 1..Len(ld.view.files), k \in Keys : OpStart(i, k)
    \/ OpCheck
    \/ OpUnwrap
    \/ OpRead
    \/ OpDecrypt
    \/ OpMkstemp
    \/ OpMkstempFail
    \/ OpWrite
    \/ \E n \in 0..Len(op.plaintext) : OpWriteFail(n)
    \/ OpExcept
    \/ OpExceptUnlinkFail

StreamNext ==
    \/ \E k \in Keys, n \in Nonces : EncOpen(k, n)
    \/ EncChunk
    \/ EncFinalize
    \/ \E pos \in 13..(12 + MaxPlainLen + 16), bit \in {0, 7} : StTamper(pos, bit)
    \/ \E k \in Keys : DecOpen(b64e(k))
    \/ DecChunk
    \/ DecFinalize

KeyWrapNext ==
    \/ KwWrap
    \/ \E pos \in 1..40 : KwTamper(pos)
    \/ \E k2 \in Keys : KwUnwrap(k2)

StreamInit ==
    /\ StInit
    /\ kw = KwIdle
    /\ bld = BldIdle
    /\ medium = EmptyMedium
    /\ escrow = {}
    /\ pl = PlOff
    /\ stor = StorOff
    /\ keyp = KeypOff
    /\ recd = RecdOff
    /\ ld = LdIdle
    /\ op = OpIdle
    /\ tmpfs = <<>>
    /\ adv = AdvIdle

KeyWrapInit ==
    /\ KwInit
    /\ st = StIdle
    /\ bld = BldIdle
    /\ medium = EmptyMedium
    /\ escrow = {}
    /\ pl = PlOff
    /\ stor = StorOff
    /\ keyp = KeypOff
    /\ recd = RecdOff
    /\ ld = LdIdle
    /\ op = OpIdle
    /\ tmpfs = <<>>
    /\ adv = AdvIdle

\* The streaming cipher alone.
SpecStream == StreamInit /\ [][StreamNext]_vars

\* The key wrap alone.
SpecKeyWrap == KeyWrapInit /\ [][KeyWrapNext]_vars

\* The player on a medium whose manifest an adversary wrote.
SpecManifest == ManifestInit /\ [][ManifestNext]_vars

\* A build, then the player on its output.
SpecPkg == PkgInit /\ [][PkgNext]_vars

\* Quiz maps handed to set_roots_and_quizzes
\* "Q"
S_Q == <<81>>

\* The options "a", "b", "c", "d"
OptA == PyStr(<<97>>)
OptB == PyStr(<<98>>)
OptC == PyStr(<<99>>)
OptD == PyStr(<<100>>)

QuizOf(q, options, correct) ==
    PyDict([q |-> q, options |-> options, correct_index |-> correct])

GoodOptions == PyList(<<OptA, OptB, OptC, OptD>>)

\* How many shapes of quiz item the quiz dialog or another caller hands over.
NumQuizShapes == 15

\* The quiz item of shape i.
QuizChoice(i) ==
    CASE i = 1  -> QuizOf(PyStr(S_Q), GoodOptions, PyInt(0))
      [] i = 2  -> QuizOf(PyStr(<<32, 81, 32>>),
                          PyList(<<PyStr(<<32, 97>>), PyStr(<<98, 32>>), OptC, OptD>>),
                          PyInt(3))
      [] i = 3  -> QuizOf(PyStr(<<32, 32>>), GoodOptions, PyInt(0))
      [] i = 4  -> QuizOf(PyStr(S_Q), PyList(<<OptA, OptB, OptC>>), PyInt(0))
      [] i = 5  -> QuizOf(PyStr(S_Q), PyList(<<OptA, PyStr(<<32, 97>>), OptC, OptD>>), PyInt(0))
      [] i = 6  -> QuizOf(PyStr(S_Q), PyList(<<OptA, PyStr(<<>>), OptC, OptD>>), PyInt(0))
      [] i = 7  -> QuizOf(PyStr(S_Q), GoodOptions, PyInt(4))
      [] i = 8  -> QuizOf(PyStr(S_Q), GoodOptions, PyStr(<<49>>))
      [] i = 9  -> EmptyDict
      [] i = 10 -> QuizOf(PyStr(S_Q), PyStr(<<97, 98, 99, 100>>), PyInt(0))
      [] i = 11 -> QuizOf(PyStr(S_Q), PyList(<<OptA, PyNone, OptC, OptD>>), PyInt(0))
      [] i = 12 -> QuizOf(PyStr(S_Q), PyList(<<OptA, PyInt(5), OptC, OptD>>), PyInt(0))
      [] i = 13 -> PyStr(S_Q)
      [] i = 14 -> QuizOf(PyInt(7), GoodOptions, PyInt(0))
      [] OTHER  -> PyDict([q |-> PyStr(S_Q), options |-> GoodOptions])

\* The lists of shapes a video's quiz is drawn from: none, one, two and
\* three good items, two bad items before a good one, and every other
\* shape followed by a good item.
QuizLists ==
    {<<>>, <<1>>, <<1, 2>>, <<1, 2, 1>>, <<3, 4, 1>>}
      \cup {<<i, 1>> : i \in 3..NumQuizShapes}

\* The quiz map with the video's list of shapes, and with one good item
\* for the PDF when pdf_too. Its keys are the absolute posix paths
\* set_roots_and_quizzes line 50 makes of the keys it is given.
QuizMapOf(shapes, pdf_too) ==
    LET video == S_ROOT_A \o <<47>> \o S_REL_VIDEO
        pdf   == S_ROOT_A \o <<47>> \o S_REL_PDF
    IN  [k \in {video} \cup (IF pdf_too THEN {pdf} ELSE {}) |->
            IF k = video THEN [j \in 1..Len(shapes) |-> QuizChoice(shapes[j])]
            ELSE <<QuizChoice(1)>>]

\* A builder with a quiz map, on an empty output folder.
QuizInit ==
    /\ \E id \in Uuids, k \in Keys, shapes \in QuizLists, pdf_too \in BOOLEAN :
          bld = [BldNew(id, k) EXCEPT !.quiz_map = QuizMapOf(shapes, pdf_too)]
    /\ medium = EmptyMedium
    /\ escrow = {}
    /\ pl = PlOff
    /\ stor = StorOff
    /\ keyp = KeypOff
    /\ recd = RecdOff
    /\ ld = LdIdle
    /\ op = OpIdle
    /\ tmpfs = <<>>
    /\ adv = AdvIdle
    /\ kw = KwIdle
    /\ st = StIdle

QuizNext ==
    \/ BuildStart
    \/ \E n \in RandomNames : BuildFile(n, KeyBytes(1), NonceBytes(1))
    \/ BuildManifest(NonceBytes(1))
    \/ BuildPackageId
    \/ BuildExport

SpecQuiz == QuizInit /\ [][QuizNext]_vars

\* The builder alone, called more than once on one output folder. What
\* varies here is the builder and the names; the content key and the nonces
\* are the first of their universes.
BuildsNext ==
    \/ BuildStart
    \/ \E n \in RandomNames : BuildFile(n, KeyBytes(1), NonceBytes(1))
    \/ \E n \in RandomNames, started \in BOOLEAN :
           BuildFileFail(n, NonceBytes(1), started)
    \/ BuildManifest(NonceBytes(1))
    \/ \E created \in BOOLEAN : BuildManifestFail(created)
    \/ BuildPackageId
    \/ BuildPackageIdFail
    \/ BuildExport
    \/ BuildExportFail
    \/ BuildAgain
    \/ \E id \in Uuids, k \in Keys : NewBuilder(id, k)

SpecBuilds == PkgInit /\ [][BuildsNext]_vars

-----------------------------------------------------------------------------
(* save_bytes calls on one name of the store directory                       *)

StoreInit ==
    /\ \E old \in BOOLEAN : stor = StorNew(old)
    /\ kw = KwIdle
    /\ st = StIdle
    /\ bld = BldIdle
    /\ medium = EmptyMedium
    /\ escrow = {}
    /\ ld = LdIdle
    /\ op = OpIdle
    /\ tmpfs = <<>>
    /\ adv = AdvIdle
    /\ pl = PlOff
    /\ keyp = KeypOff
    /\ recd = RecdOff

StoreNext ==
    \/ \E w \in Writers : StoreOpen(w)
    \/ \E w \in Writers, n \in 1..MaxBlobLen : StoreWrite(w, n)
    \/ \E w \in Writers : StoreFsync(w)
    \/ \E w \in Writers : StoreReplace(w)
    \/ StoreCrash

SpecStore == StoreInit /\ [][StoreNext]_vars

-----------------------------------------------------------------------------
(* ensure_keypair calls on the device's store                                *)

KeysInit ==
    /\ keyp = KeypOff
    /\ kw = KwIdle
    /\ st = StIdle
    /\ bld = BldIdle
    /\ medium = EmptyMedium
    /\ escrow = {}
    /\ ld = LdIdle
    /\ op = OpIdle
    /\ tmpfs = <<>>
    /\ adv = AdvIdle
    /\ pl = PlOff
    /\ stor = StorOff
    /\ recd = RecdOff

KeysNext ==
    \/ \E k \in 1..NumRsaKeys, w \in BOOLEAN : KeysEnsure(k, w)
    \/ \E k \in 1..NumRsaKeys : KeysEnsureCrashed(k)
    \/ \E k \in 1..NumRsaKeys, w \in BOOLEAN : KeysIssue(k, w)
    \/ KeysDamaged

SpecKeys == KeysInit /\ [][KeysNext]_vars

-----------------------------------------------------------------------------
(* The recorder debounce on its own                                          *)

RecorderInit ==
    /\ recd = RecdOff
    /\ kw = KwIdle
    /\ st = StIdle
    /\ bld = BldIdle
    /\ medium = EmptyMedium
    /\ escrow = {}
    /\ ld = LdIdle
    /\ op = OpIdle
    /\ tmpfs = <<>>
    /\ adv = AdvIdle
    /\ pl = PlOff
    /\ stor = StorOff
    /\ keyp = KeypOff

RecorderNext ==
    \/ \E found \in BOOLEAN : poll_recorders_main(found)
    \/ \E found \in BOOLEAN : on_scanner_result(found)
    \/ VideoWindowOpened

SpecRecorder == RecorderInit /\ [][RecorderNext]_vars

-----------------------------------------------------------------------------
(* The player opening files of an activated package                          *)

\* The package is built and imported, the player started and activated with
\* the server answering with its signed license; then files are opened, the
\* root is chosen again, the window is closed or the process ends.
TempsNext ==
    \/ BuildStart
    \/ BuildFile(random_name(TokenBytes(bld.i, 6), TokenBytes(bld.i, 2)),
                 KeyBytes(1), NonceBytes(1))
    \/ BuildManifest(NonceBytes(1))
    \/ BuildPackageId
    \/ BuildExport
    \/ upload_to_server
    \/ PlayerStart(1)
    \/ on_activate(S_CODE_K1, "bound", 1, TRUE, TRUE)
    \/ \E i \in 1..MaxOpenEntry, made \in BOOLEAN : on_item_double(i, made)
    \/ \E keep \in SUBSET (1..MaxOpens) : on_choose(keep)
    \/ \E keep \in SUBSET (1..MaxOpens) : PlayerQuit(keep)
    \/ PlayerKill

SpecTemps == PlayerInit /\ [][TempsNext]_vars

-----------------------------------------------------------------------------
(* The player reloading a package whose license file changes                 *)

ReloadNext ==
    \/ BuildStart
    \/ BuildFile(random_name(TokenBytes(bld.i, 6), TokenBytes(bld.i, 2)),
                 KeyBytes(1), NonceBytes(1))
    \/ BuildManifest(NonceBytes(1))
    \/ BuildPackageId
    \/ BuildExport
    \/ upload_to_server
    \/ PlayerStart(1)
    \/ on_activate(S_CODE_K1, "bound", 1, TRUE, TRUE)
    \/ on_load
    \/ \E keep \in SUBSET (1..MaxOpens) : on_choose(keep)
    \/ \E keep \in SUBSET (1..MaxOpens) : PlayerQuit(keep)
    \/ \E i \in 1..NumMediumWrites : MediumLicenseWritten(i)
    \/ \E i \in 1..NumMediumWrites : MediumLicenseReplaced(i)

SpecReload == PlayerInit /\ [][ReloadNext]_vars

-----------------------------------------------------------------------------
(* Claims                                                                   *)

\* The bytes of the i-th file build() walks.
SourceBytes(i) == walk_all_files(bld.roots)[i].data

\* The environment let the call through: the medium was not touched after
\* the build and neither mkstemp nor the write of the temp file failed.
Undisturbed == adv.tampered = {} /\ op.err # "OSError"

\* C1: end to end. For every source file of a successful build(), after
\* load_package with that build's KEK, decrypt_file_to_temp on the file's
\* descriptor returns a temp file whose bytes are the source file's bytes.
C1_EndToEndRoundTrip ==
    (/\ bld.pc = "done"
     /\ ld.pc = "loaded"
     /\ op.pc \in {"returned", "raised"}
     /\ op.key = bld.drive_key
     /\ Undisturbed)
    => (/\ op.pc = "returned"
        /\ tmpfs[op.tmp].exists
        /\ tmpfs[op.tmp].data = SourceBytes(op.entry))

\* What the code keeps of C1: the round trip of a build in which
\* _random_name gave every file a name of its own.
EndToEndDistinctNames ==
    (/\ bld.pc = "done"
     /\ ld.pc = "loaded"
     /\ op.pc \in {"returned", "raised"}
     /\ op.key = bld.drive_key
     /\ Undisturbed
     /\ Cardinality(DOMAIN medium.content) = Len(walk_all_files(bld.roots)))
    => (/\ op.pc = "returned"
        /\ tmpfs[op.tmp].exists
        /\ tmpfs[op.tmp].data = SourceBytes(op.entry))

\* C2: streaming round trip. For every plaintext (the empty file included)
\* and every chunk size > 0, decrypting the untouched output of
\* encrypt_file_aesgcm_stream with the returned content key ends without an
\* error and leaves a destination equal to the plaintext.
C2_StreamRoundTrip ==
    (/\ st.pc \in {"dec_done", "dec_raised"}
     /\ ~st.tampered
     /\ st.dkey_b64 = st.ret.ck_b64)
    => (/\ st.pc = "dec_done"
        /\ st.dst.exists
        /\ st.dst.data = st.src)

\* C2 witness: a plaintext longer than the chunk size went through both
\* loops in several chunks and came back.
C2_Witness ==
    /\ st.pc = "dec_done"
    /\ ~st.tampered
    /\ st.dkey_b64 = st.ret.ck_b64
    /\ Len(st.src) > st.chunk
    /\ st.dst.data = st.src

\* C3: tamper detection. When a bit of the ciphertext or tag region was
\* inverted, or another key is used, decrypt_file_aesgcm_stream fails with
\* the authentication error and no destination file holding unauthenticated
\* plaintext is left behind.
C3_TamperLeavesNoPlaintext ==
    (/\ st.pc \in {"dec_done", "dec_raised"}
     /\ (st.tampered \/ st.dkey # st.key))
    => (/\ st.pc = "dec_raised"
        /\ st.err = "InvalidTag"
        /\ ~(st.dst.exists /\ st.dst.data # <<>>))

\* The half of C3 the code keeps: the call never ends normally on a
\* tampered file or with another key.
StreamTamperRaises ==
    (/\ st.pc \in {"dec_done", "dec_raised"}
     /\ (st.tampered \/ st.dkey # st.key))
    => (st.pc = "dec_raised" /\ st.err = "InvalidTag")

\* The trailing 16 bytes of data are the tag of the bytes between the
\* 12-byte nonce and them, under key.
TagVerifies(key, data) ==
    /\ Len(data) >= 12 + 16
    /\ GcmTag(key, Slice(data, 0, 12), Slice(data, 12, Len(data) - 16))
         = Slice(data, Len(data) - 16, Len(data))

\* The call made a temp file only with the content key unwrapped from the
\* descriptor under the caller's key and the tag of the blob verified.
TempOnlyAfterVerify ==
    op.tmp # 0
    => LET w == GetOrNone(op.desc, "wrapped_key_b64")
       IN  /\ w.t = "str"
           /\ unwrap_content_key(op.key, w.v).ok
           /\ unwrap_content_key(op.key, w.v).v = op.content_key
           /\ TagVerifies(op.content_key, op.blob)
           /\ op.plaintext = CtrDecrypt(op.content_key, Slice(op.blob, 0, 12), 0,
                                        Slice(op.blob, 12, Len(op.blob) - 16))

C5_KeyWrapRoundTrip ==
    (kw.pc = "unwrapped" /\ ~kw.tampered)
    => IF kw.kek2 = kw.kek
       THEN kw.out.ok /\ kw.out.v = kw.key
       ELSE ~kw.out.ok

\* C5 witness: both cases happened, a key recovered with the wrapping KEK
\* and an unwrap with another KEK.
C5_Witness ==
    /\ kw.pc = "unwrapped"
    /\ ~kw.tampered
    /\ kw.kek2 = kw.kek
    /\ kw.out.ok
    /\ kw.out.v = kw.key
    /\ kw.key # kw.kek

\* C6: manifest confidentiality. load_package with a key other than the
\* KEK of the build fails and returns no PackageView, and json.loads is
\* reached only with the tag of manifest.enc verified under the key given.
C6_WrongKeyFailsBeforeParse ==
    /\ (/\ bld.pc = "done"
        /\ ld.pc \in {"loaded", "raised"}
        /\ ld.key # bld.drive_key)
       => (ld.pc = "raised" /\ ld.view = NoView /\ ld.manifest = PyNone)
    /\ ld.parsed => TagVerifies(ld.key, ld.data)

\* C6 witness: a completed build was loaded with another key and the call
\* raised on the tag, before any parsing.
C6_Witness ==
    /\ bld.pc = "done"
    /\ ld.pc = "raised"
    /\ ld.key # bld.drive_key
    /\ ld.err = "InvalidTag"
    /\ ~ld.parsed

\* The file name is not one to open below content/: empty, or with a path
\* separator or ".." in it.
UnsafeName(name) ==
    name = <<>> \/ HasChar(name, 47) \/ HasChar(name, 92) \/ HasDotDot(name)

\* The elements of the files list of manifest m (none if m has no list).
ManifestFiles(m) ==
    IF m.t = "dict" /\ GetOrNone(m, "files").t = "list" THEN m.v.files.v ELSE <<>>

\* Element f of a files list is an object with an object desc.
HasDesc(f) == f.t = "dict" /\ GetOrNone(f, "desc").t = "dict"

\* The enc_name of the descriptor of f, as text.
EncNameText(f) == PyStrOf(Get(f.v.desc, "enc_name", PyStr(<<>>)))

\* C7: unsafe filename rejection. load_package fails for every manifest
\* with a descriptor whose enc_name is empty or contains "..", "/" or "\";
\* every FileEntry of a returned PackageView has a safe enc_name; and
\* decrypt_file_to_temp on a loaded entry looks for no unsafe name.
C7_UnsafeNamesRejected ==
    /\ (/\ ld.pc \in {"loaded", "raised"}
        /\ \E i \in 1..Len(ManifestFiles(adv.manifest)) :
              /\ HasDesc(ManifestFiles(adv.manifest)[i])
              /\ UnsafeName(EncNameText(ManifestFiles(adv.manifest)[i])))
       => ld.pc = "raised"
    /\ ld.pc = "loaded"
       => \A i \in 1..Len(ld.view.files) :
             ~UnsafeName(PyStrOf(Get(ld.view.files[i].desc, "enc_name", PyStr(<<>>))))
    /\ \A n \in op.opened : ~UnsafeName(n)

\* C7 witness: a manifest with one good descriptor and one whose enc_name
\* holds ".." was decrypted, parsed and rejected.
C7_Witness ==
    /\ ld.pc = "raised"
    /\ ld.parsed
    /\ ld.err = "ValueError"
    /\ Len(ManifestFiles(adv.manifest)) = 2
    /\ ~UnsafeName(EncNameText(ManifestFiles(adv.manifest)[1]))
    /\ HasDesc(ManifestFiles(adv.manifest)[2])
    /\ HasDotDot(EncNameText(ManifestFiles(adv.manifest)[2]))

\* Element f of a files list fails descriptor validation: it is not an
\* object, its desc is not an object, its enc_name is unsafe, or nonce, tag
\* or wrapped key is missing.
InvalidElement(f) ==
    \/ ~HasDesc(f)
    \/ UnsafeName(EncNameText(f))
    \/ ~Truthy(GetOrNone(f.v.desc, "nonce_b64"))
    \/ ~Truthy(GetOrNone(f.v.desc, "tag_b64"))
    \/ ~Truthy(GetOrNone(f.v.desc, "wrapped_key_b64"))

\* C8: any element of the files list that fails descriptor validation makes
\* load_package fail as a whole; no PackageView is returned from which such
\* an element was left out.
C8_InvalidElementFailsLoad ==
    (/\ ld.pc \in {"loaded", "raised"}
     /\ \E i \in 1..Len(ManifestFiles(adv.manifest)) :
           InvalidElement(ManifestFiles(adv.manifest)[i]))
    => ld.pc = "raised"

\* What the code keeps of C8: an element that is an object with an object
\* desc and fails validation makes load_package fail.
InvalidDescriptorFailsLoad ==
    (/\ ld.pc \in {"loaded", "raised"}
     /\ \E i \in 1..Len(ManifestFiles(adv.manifest)) :
           /\ HasDesc(ManifestFiles(adv.manifest)[i])
           /\ InvalidElement(ManifestFiles(adv.manifest)[i]))
    => ld.pc = "raised"

\* A text value is within the string bound; other values are not texts.
TextWithin(v, n) == v.t = "str" => Len(v.v) <= n

\* Manifest m exceeds a defensive bound: too many roots or files, or a text
\* field longer than MAX_STR_LEN in the header, a root or a file element.
ExceedsBound(m) ==
    /\ m.t = "dict"
    /\ \/ GetOrNone(m, "roots").t = "list" /\ Len(m.v.roots.v) > MAX_ROOTS
       \/ GetOrNone(m, "files").t = "list" /\ Len(m.v.files.v) > MAX_FILES
       \/ ~TextWithin(GetOrNone(m, "package_id"), MAX_STR_LEN)
       \/ ~TextWithin(GetOrNone(m, "drive_id"), MAX_STR_LEN)
       \/ /\ GetOrNone(m, "roots").t = "list"
          /\ \E i \in 1..Len(m.v.roots.v) :
                /\ m.v.roots.v[i].t = "dict"
                /\ \E k \in DOMAIN m.v.roots.v[i].v :
                      ~TextWithin(m.v.roots.v[i].v[k], MAX_STR_LEN)
       \/ \E i \in 1..Len(ManifestFiles(m)) :
             /\ ManifestFiles(m)[i].t = "dict"
             /\ \/ \E k \in DOMAIN ManifestFiles(m)[i].v :
                      ~TextWithin(ManifestFiles(m)[i].v[k], MAX_STR_LEN)
                \/ /\ HasDesc(ManifestFiles(m)[i])
                   /\ \E k \in DOMAIN ManifestFiles(m)[i].v.desc.v :
                         ~TextWithin(ManifestFiles(m)[i].v.desc.v[k], MAX_STR_LEN)

\* The counts and the fields PackageView cuts are within their bounds.
CutFieldsBounded ==
    ld.pc = "loaded"
    => /\ Len(ld.view.roots) <= MAX_ROOTS
       /\ Len(ld.view.files) <= MAX_FILES
       /\ TextWithin(ld.view.package_id, MAX_STR_LEN)
       /\ TextWithin(ld.view.drive_id, MAX_STR_LEN)
       /\ \A i \in 1..Len(ld.view.roots) : Len(ld.view.roots[i].name) <= MAX_STR_LEN
       /\ \A i \in 1..Len(ld.view.files) :
             /\ Len(ld.view.files[i].root_name) <= MAX_STR_LEN
             /\ Len(ld.view.files[i].relpath) <= MAX_STR_LEN
             /\ Len(ld.view.files[i].kind) <= MAX_STR_LEN
             /\ Len(PyStrOf(Get(ld.view.files[i].desc, "enc_name", PyStr(<<>>))))
                  <= MAX_FILENAME_LEN

\* C9: defensive bounds. A returned PackageView has at most MAX_ROOTS roots
\* and MAX_FILES files, every text it retains from the manifest (package_id,
\* drive_id, root name and path_hint, root_name, relpath, kind, descriptor
\* fields) is within the bound, and a manifest exceeding a bound is rejected.
C9_DefensiveBounds ==
    /\ CutFieldsBounded
    /\ ld.pc = "loaded"
       => /\ \A i \in 1..Len(ld.view.roots) :
                TextWithin(ld.view.roots[i].path_hint, MAX_STR_LEN)
          /\ \A i \in 1..Len(ld.view.files) :
                \A k \in DOMAIN ld.view.files[i].desc.v :
                   TextWithin(ld.view.files[i].desc.v[k], MAX_STR_LEN)
    /\ (ld.pc \in {"loaded", "raised"} /\ ExceedsBound(adv.manifest)) => ld.pc = "raised"

\* What the code keeps of C9: more than MAX_ROOTS roots or MAX_FILES files
\* are rejected and the cut fields are bounded.
CountsRejected ==
    /\ CutFieldsBounded
    /\ (/\ ld.pc \in {"loaded", "raised"}
        /\ adv.manifest.t = "dict"
        /\ \/ GetOrNone(adv.manifest, "roots").t = "list"
              /\ Len(adv.manifest.v.roots.v) > MAX_ROOTS
           \/ GetOrNone(adv.manifest, "files").t = "list"
              /\ Len(adv.manifest.v.files.v) > MAX_FILES)
       => ld.pc = "raised"

\* C10: build is all-or-nothing on a source failure. When encrypting a
\* source file fails, build() raises at that file and the call has written
\* no manifest.enc, no package_id.txt and no escrow record.
C10_BuildAllOrNothing ==
    bld.file_failed
    => /\ bld.pc = "failed"
       /\ ~medium.manifest.exists
       /\ ~medium.pkgid.exists
       /\ escrow = {}

\* C10 witness: the second file failed after the first had been encrypted
\* into content/, and the build ended there.
C10_Witness ==
    /\ bld.file_failed
    /\ bld.pc = "failed"
    /\ bld.i = 2
    /\ Len(bld.files_desc) = 1
    /\ DOMAIN medium.content # {}
    /\ ~medium.manifest.exists

\* C11: whenever build() ends with an error at any step, also one after the
\* file loop (writing package_id.txt, exporting the escrow record), no
\* manifest.enc written by the call is present in the target directory.
C11_NoManifestAfterAnyError ==
    bld.pc = "failed" => ~medium.manifest.exists

\* What the code keeps of C11: an error in the file loop, before line 168
\* is reached, leaves no manifest.enc behind.
NoManifestAfterEarlyError ==
    (bld.pc = "failed" /\ bld.i <= Len(bld.walk)) => ~medium.manifest.exists

\* C12: any two completed build() calls, two calls on one PackageBuilder
\* with the same inputs included, yield different package ids and
\* different KEKs.
C12_BuildsYieldDistinctIds ==
    \A i, j \in 1..Len(bld.returned) :
       i # j => /\ bld.returned[i].package_id # bld.returned[j].package_id
                /\ bld.returned[i].drive_key # bld.returned[j].drive_key

\* What the code does instead: the package id and the KEK belong to the
\* PackageBuilder object, so two builds on one object return the same pair.
SameBuilderSameIds ==
    \A i, j \in 1..Len(bld.returned) :
       bld.returned[i].instance = bld.returned[j].instance
       => /\ bld.returned[i].package_id = bld.returned[j].package_id
          /\ bld.returned[i].drive_key = bld.returned[j].drive_key

\* Two builds completed on one PackageBuilder.
TwoBuildsOnOneBuilder ==
    /\ Len(bld.returned) = 2
    /\ bld.returned[1].instance = bld.returned[2].instance

\* The entries of the manifest the build has written.
ManifestEntries == bld.files_desc

\* The name of the file at relpath starts with '.'.
Hidden(relpath) == PathName(relpath)[1] = 46

\* The entries for the file at relpath under the root at 0-based index r.
EntriesFor(r, relpath) ==
    {k \in 1..Len(ManifestEntries) :
        /\ ManifestEntries[k].v.root_index = PyInt(r)
        /\ ManifestEntries[k].v.relpath = PyStr(relpath)}

\* C14: a completed build() has exactly one manifest entry for every
\* non-hidden regular file under every root, with the root's index and the
\* file's path relative to the root, and no entry for a hidden file.
C14_OneEntryPerVisibleFile ==
    bld.pc = "done"
    => \A r \in 1..Len(bld.roots) :
          \A k \in 1..Len(bld.roots[r].files) :
             LET f == bld.roots[r].files[k]
             IN  Cardinality(EntriesFor(r - 1, f.relpath))
                   = (IF Hidden(f.relpath) THEN 0 ELSE 1)

\* What the code keeps of C14: one entry for every non-hidden file in a
\* directory os.walk could list, none for a hidden one, and no entry that
\* is not the entry of a file under its root.
OneEntryPerListedFile ==
    bld.pc = "done"
    => /\ \A r \in 1..Len(bld.roots) :
             \A k \in 1..Len(bld.roots[r].files) :
                LET f == bld.roots[r].files[k]
                IN  Cardinality(EntriesFor(r - 1, f.relpath))
                      = (IF f.listed /\ ~Hidden(f.relpath) THEN 1 ELSE 0)
       /\ \A e \in 1..Len(ManifestEntries) :
             \E r \in 1..Len(bld.roots) :
                \E k \in 1..Len(bld.roots[r].files) :
                   e \in EntriesFor(r - 1, bld.roots[r].files[k].relpath)

\* v is a text that is not empty.
NonEmptyText(v) == v.t = "str" /\ v.v # <<>>

\* Quiz item q has a question, four distinct non-empty options and a
\* correct_index from 0 to 3.
WellFormedQuizItem(q) ==
    /\ q.t = "dict"
    /\ NonEmptyText(GetOrNone(q, "q"))
    /\ GetOrNone(q, "options").t = "list"
    /\ Len(q.v.options.v) = 4
    /\ \A a \in 1..4 : NonEmptyText(q.v.options.v[a])
    /\ \A a, b \in 1..4 : a # b => q.v.options.v[a] # q.v.options.v[b]
    /\ GetOrNone(q, "correct_index").t = "int"
    /\ q.v.correct_index.v \in 0..3

\* The quiz list handed over for the file of manifest entry e.
QuizInput(e) ==
    LET key == bld.roots[e.v.root_index.v + 1].path \o <<47>> \o e.v.relpath.v
    IN  IF key \in DOMAIN bld.quiz_map THEN bld.quiz_map[key] ELSE <<>>

C16_InvalidQuizNeverFailsBuild ==
    bld.pc # "failed"

\* What the code keeps of C16: an item that is an object whose q and
\* options hold texts (or nothing) is dropped without an error.
TextShapedQuizNeverFailsBuild ==
    bld.pc = "failed"
    => \E key \in DOMAIN bld.quiz_map :
          \E j \in 1..Min(2, Len(bld.quiz_map[key])) :
             LET q == bld.quiz_map[key][j]
             IN  \/ q.t # "dict"
                 \/ GetOrNone(q, "q").t \notin {"str", "none"}
                 \/ /\ GetOrNone(q, "options").t = "list"
                    /\ \E a \in 1..Len(q.v.options.v) :
                          q.v.options.v[a].t \notin {"str", "none"}

\* needle occurs in hay as a run of consecutive elements.
Contains(hay, needle) ==
    \E i \in 0..(Len(hay) - Len(needle)) :
       SubSeq(hay, i + 1, i + Len(needle)) = needle

\* The bytes hold the KEK as it is, as hexadecimal text or as base64 text.
HoldsKek(data, kek) ==
    \/ Contains(data, kek)
    \/ Contains(data, Hex(kek))
    \/ Contains(data, b64e(kek))

\* The contents of the files under SecureContent/.
SecureContentFiles ==
    {f.data : f \in {g \in {medium.manifest, medium.pkgid, medium.license} : g.exists}}
    \cup {medium.content[n] : n \in DOMAIN medium.content}

\* Directory path lies in directory root or below it.
IsUnder(path, root) ==
    Len(path) >= Len(root) /\ SubSeq(path, 1, Len(root)) = root

\* No file under SecureContent/ holds the KEK in plaintext.
NoKekInSecureContent ==
    \A data \in SecureContentFiles : ~HoldsKek(data, bld.drive_key)

\* C13: in every state reachable by build, upload, activate and load, no
\* file under the distributed SecureContent/ contains the KEK in plaintext,
\* and the escrow record is written outside the target directory.
C13_KekNeverOnDistributedMedium ==
    /\ NoKekInSecureContent
    /\ \A e \in escrow : ~IsUnder(e.folder, bld.target_root)

\* What the code keeps of C13: the files under SecureContent/ never hold
\* the KEK, and the escrow record lies outside the target directory
\* whenever the admin tool itself is installed outside it.
KekOffMediumToolElsewhere ==
    /\ NoKekInSecureContent
    /\ ~IsUnder(bld.module_dir, bld.target_root)
       => \A e \in escrow : ~IsUnder(e.folder, bld.target_root)

\* A state in which the escrow record, the license file and the store's
\* license all exist, so that the two properties above speak about them.
KekOffMediumReached ==
    /\ escrow # {}
    /\ medium.license.exists
    /\ pl.last_load = "loaded"

\* C17: on_activate persists a license payload (license_response.json, the
\* store's license_<pkg> and code_<pkg>) only after the Ed25519 signature
\* over the canonical JSON of payload.license was verified against the
\* public key embedded in the payload; a payload for which verification
\* did not succeed is not persisted.
C17_PersistsOnlyVerifiedPayload ==
    pl.wrote => pl.checked = "verified"

\* What the code keeps of C17: a payload whose signature check raised is
\* not persisted and no success is reported.
RaisedCheckNotPersisted ==
    pl.checked = "raised" => ~pl.wrote /\ pl.report \in {"sig_invalid", "exception"}

\* C18: every license payload from which _load_drive_key RSA-decrypts the
\* KEK has had its signature verified by this client before, also a
\* payload read from license_response.json on the medium.
C18_KeyOnlyFromVerifiedPayload ==
    pl.key_from # <<>> => pl.key_from \in pl.verified

\* C19: if the store write of license_<package_id> fails, on_activate
\* surfaces an error; it never reports success while that write was lost.
C19_LostStoreWriteIsSurfaced ==
    pl.report = "success" => ~pl.lost

\* The server's signed license for this device, as JSON.
GenuineText ==
    JsonDumps(PayloadOf(1, bld.package_id, bld.drive_key,
                        load_private_key_from_store(pl.store)))

\* The license the player finds is the one this device was issued: on the
\* medium, or in the store when the medium holds no license file.
OwnLicenseCached ==
    \/ medium.license.exists /\ medium.license.data = GenuineText
    \/ /\ ~medium.license.exists
       /\ load_bytes(pl.store, S_LICENSE_ \o bld.package_id).v = GenuineText

\* C20: after one successful on_activate, every later _load_content for
\* that package on that device recovers the KEK from the cached license and
\* loads the manifest, also after a restart. (_load_content makes no call
\* to the server: load_content has none.)
C20_LoadsFromCacheAfterActivation ==
    (pl.activated /\ pl.last_load # "none")
    => (pl.last_load = "loaded" /\ pl.drive_key = bld.drive_key)

\* What the code keeps of C20: the load succeeds whenever the license this
\* device was issued is the one the player finds.
LoadsWhenOwnLicenseCached ==
    (pl.activated /\ pl.last_load # "none" /\ OwnLicenseCached)
    => (pl.last_load = "loaded" /\ pl.drive_key = bld.drive_key)

\* A load after a restart that found the device's own license.
LoadsAfterRestartReached ==
    /\ pl.activated
    /\ pl.last_load = "loaded"
    /\ pl.report = "none"

\* C30: in MainWindow._poll_recorders_main and in
\* VideoPlayerWindow._on_scanner_result, recorder_detected goes from false
\* to true only at a poll that completes two consecutive polls with a
\* match, and from true to false only at a poll that completes two
\* consecutive polls without one; a single hit or miss never changes it.
C30_RecorderDebounce ==
    \A w \in {"main", "video"} :
       /\ recd[w].flip = "set" => recd[w].seen = <<TRUE, TRUE>>
       /\ recd[w].flip = "cleared" => recd[w].seen = <<FALSE, FALSE>>

\* The main window has just set the flag and the video window has just
\* cleared it.
C30_Witness ==
    /\ recd.main.flip = "set"
    /\ recd.video.flip = "cleared"

\* The values a load can give when no two calls ran at the same time: what
\* the store held at the start, or the whole blob of a call that began.
WholeValues ==
    {stor.initial} \cup
    {[some |-> TRUE, v |-> Blob(w)] : w \in {x \in Writers : stor.w[x].pc # "idle"}}

\* C22: when save_bytes(name, new) is interrupted by a crash at any step, a
\* later load_bytes(name) gives the whole previous value (None when there
\* was none) or the whole new value, never a part or a mix; the same holds
\* at every step of calls that follow one another.
C22_CrashAtomicSave ==
    ~stor.overlap => LoadBytesAt(stor, StorName) \in WholeValues

\* A crash found a call with half of its bytes in tmp, and the name still
\* reads as before.
C22_Witness ==
    /\ stor.crashed
    /\ ~stor.overlap
    /\ \E w \in Writers : stor.w[w].pc = "dead" /\ stor.w[w].pos \in 1..(Len(Blob(w)) - 1)
    /\ LoadBytesAt(stor, StorName) = stor.initial

\* A crash after os.replace, or after a call that completed: the name reads
\* as the new value.
C22_NewValueReached ==
    /\ stor.crashed
    /\ ~stor.overlap
    /\ LoadBytesAt(stor, StorName) # stor.initial

\* C23: when two save_bytes calls for the same name run at the same time,
\* interleaved at any step and sharing <name>.tmp, both complete without
\* error and load_bytes(name) then gives one of the two values in full.
C23_ConcurrentSavesSerialized ==
    (~stor.crashed /\ \A w \in Writers : stor.w[w].pc \in {"done", "failed"})
    => /\ \A w \in Writers : stor.w[w].pc = "done"
       /\ LoadBytesAt(stor, StorName) \in {[some |-> TRUE, v |-> Blob(w)] : w \in Writers}

\* What the code keeps of C23: calls that follow one another all complete
\* and the last value is stored in full.
SequentialSavesComplete ==
    (~stor.crashed /\ ~stor.overlap /\ \A w \in Writers : stor.w[w].pc \in {"done", "failed"})
    => /\ \A w \in Writers : stor.w[w].pc = "done"
       /\ LoadBytesAt(stor, StorName) \in {[some |-> TRUE, v |-> Blob(w)] : w \in Writers}

\* The store entry is there and is the DER of a private key.
HoldsPrivateKey(entry) ==
    entry.some /\ \E k \in 1..NumRsaKeys : entry.v = PrivDer(k)

C28_PublicPemMatchesPrivateKey ==
    keyp.op \in {"ensure", "issue"}
    => get_public_pem_text(keyp.store) = PubPem(load_private_key_from_store(keyp.store))

\* What the code keeps of C28: the two halves agree as long as the
\* private-key entry never became unreadable, also after a crash between
\* the two saves.
PemMatchesWhileKeyReadable ==
    (keyp.op \in {"ensure", "issue"} /\ ~keyp.damaged)
    => get_public_pem_text(keyp.store) = PubPem(load_private_key_from_store(keyp.store))

\* An ensure_keypair that found the private key of a crashed first call
\* without its public PEM and wrote the PEM again.
PemRegeneratedReached ==
    /\ keyp.op = "ensure"
    /\ ~keyp.damaged
    /\ keyp.prev.some
    /\ keyp.issued = {}

\* The enc_name values of the manifest entries of the build, in order.
EncNames == [i \in 1..Len(bld.files_desc) |-> bld.files_desc[i].v.desc.v.enc_name.v]

\* C25: after a successful build() of N source files into a target whose
\* content/ was empty, the N descriptors of the manifest have pairwise
\* distinct enc_name values and content/ holds exactly N files, one per
\* descriptor: no random name is used twice and no encrypted file
\* overwrites another (read while the medium is as the build left it).
C25_RandomNamesNeverReused ==
    (bld.pc = "done" /\ adv.tampered = {})
    => /\ \A i, j \in 1..Len(EncNames) : i # j => EncNames[i] # EncNames[j]
       /\ Cardinality(DOMAIN medium.content) = Len(bld.files_desc)

\* What the code keeps of C25: every descriptor of a completed build names
\* a file that is in content/, and content/ holds no other file.
EveryDescriptorHasItsFile ==
    (bld.pc = "done" /\ adv.tampered = {})
    => DOMAIN medium.content = {EncNames[i] : i \in 1..Len(EncNames)}

\* The temp files that exist, and those MainWindow.temp_paths names.
TempFilesLeft == {i \in 1..Len(tmpfs) : tmpfs[i].exists}
TrackedTemps == {pl.temp_paths[j] : j \in 1..Len(pl.temp_paths)}

\* C24: every temp file decrypt_file_to_temp made for the window is in
\* temp_paths until it is deleted, and once the window is gone, however the
\* process ended, or the root was switched, none of them exists: while the
\* player runs every existing temp file is tracked, and when it does not
\* run no temp file exists.
C24_TempFilesDrainedOnEveryExit ==
    /\ pl.running => TempFilesLeft \subseteq TrackedTemps
    /\ ~pl.running => TempFilesLeft = {}

\* What the code keeps of C24: the same, as long as every run ended through
\* closeEvent and every safe_delete removed its file.
TempFilesDrainedOnCleanExit ==
    (~pl.killed /\ ~pl.undeleted)
    => /\ pl.running => TempFilesLeft \subseteq TrackedTemps
       /\ ~pl.running => TempFilesLeft = {}

\* A window that was closed after it had opened files, all of them deleted.
TempFilesDrainedReached ==
    /\ ~pl.running /\ ~pl.killed /\ ~pl.undeleted
    /\ Len(tmpfs) > 0 /\ TempFilesLeft = {}

\* C26: whenever _is_activated_for_current_root() holds, _load_drive_key()
\* in the same state returns the KEK: the payload it picks has a license
\* whose enc_drive_key_b64 this device's private key decrypts.
C26_ActivatedImpliesKeyRecoverable ==
    (pl.running /\ is_activated_for_current_root(pl, medium))
    => (load_drive_key(pl, medium).ok /\ load_drive_key(pl, medium).v # <<>>)

\* What the code keeps of C26: it holds when the license the player finds
\* is the one this device was issued.
ActivatedWithOwnLicenseRecoversKey ==
    (pl.running /\ is_activated_for_current_root(pl, medium) /\ OwnLicenseCached)
    => (load_drive_key(pl, medium).ok /\ load_drive_key(pl, medium).v = bld.drive_key)

\* C27: on_activate calls license_v2 only if the activate_v2 before it
\* reported success (HTTP 200 with status "bound"), and an on_activate
\* whose activation failed ends with no license request made and nothing
\* persisted.
C27_LicenseOnlyAfterBoundActivation ==
    /\ pl.asked => pl.act_ok
    /\ (pl.report # "none" /\ ~pl.act_ok) => (~pl.asked /\ ~pl.wrote)

\* What the code keeps of C27: license_v2 is never called before
\* activate_v2 has answered, and an on_activate that made no license request
\* persisted nothing and ended with an error.
NoLicenseRequestNothingPersisted ==
    (pl.report # "none" /\ ~pl.asked) => (~pl.wrote /\ pl.report = "error")

\* C29: no stale package state. Whenever the window holds a package, it was
\* decrypted from the manifest of the current root with the key that is
\* the current drive_key.
C29_PackageDecryptedWithCurrentKey ==
    pl.package => (pl.secure_root /\ pl.drive_key # <<>> /\ pl.pkg_key = pl.drive_key)

\* What the code keeps of C29: a switch of root leaves no key, no package
\* and no tracked temp file behind before the new content is loaded, and
\* on_item_double, which needs both a package and a key, never decrypts
\* with a key other than the one the held package was decrypted with.
OpensOnlyWithKeyOfHeldPackage ==
    (pl.package /\ pl.drive_key # <<>>) => (pl.secure_root /\ pl.pkg_key = pl.drive_key)

====
